---- MODULE Spec2Model ----
(***************************************************************************)
(* The chat hub of multi-chat-2.0: backend/websocket/websocket.go          *)
(* (Hub.Run, Hub.JoinRoom, Hub.LeaveRoom, Hub.BroadcastToRoom,             *)
(* Client.readPump, Client.writePump, HandleConnections, HandleJoinRoom,   *)
(* HandleInvitation) together with the message and chat-room collections   *)
(* of backend/database that these functions call.                          *)
(*                                                                         *)
(* Every goroutine is a process of the model.  The hub's channels are      *)
(* unbuffered, so a request is handed over in the step in which the hub    *)
(* receives it: a goroutine blocked on a hub channel is a value of pc.     *)
(***************************************************************************)
EXTENDS Naturals, Sequences, FiniteSets

(***************************************************************************)
(* Bounds of the model.                                                    *)
(***************************************************************************)
\* capacity of a client's send channel in the model (256 in the source)
QueueCap == 1
\* number of documents the messages collection may hold
MaxMessages == 2
\* the limit HandleConnections passes to GetMessages in the model (50 in the source)
HistoryLimit == 2

(***************************************************************************)
(* Identifiers.  ObjectIDs of users and rooms are strings, the zero        *)
(* ObjectID is NilObjectID; message ids are numbers, 0 the zero ObjectID.  *)
(***************************************************************************)
NilObjectID == ""
NilMessageID == 0
\* the id a client may put into the "id" field of a frame
ForgedID == 9

Users == {"u1", "u2"}
Rooms == {"r1", "r2"}
\* the connections HandleConnections creates; c1 and c2 are two sockets of one user
Clients == {"c1", "c2", "c3"}

UserIDOf(c) == IF c = "c3" THEN "u2" ELSE "u1"
UsernameOf(c) == IF c = "c3" THEN "bob" ELSE "alice"

MessageTypeChat == "chat"
MessageTypeSystem == "system"
SystemUsername == "sys"

NoFatal == "none"
SendOnClosed == "send on closed channel"
CloseOfClosed == "close of closed channel"

VARIABLES
    clients,          \* Hub.clients: the set of keys of map[*Client]bool
    clientsByUserID,  \* Hub.clientsByUserID: a function from user ids to clients
    roomClients,      \* Hub.roomClients: a function from room ids to sets of clients
    send,             \* Client.send of every client: the buffered messages
    closed,           \* whether close(c.send) was executed
    pc,               \* where the goroutine of HandleConnections / readPump stands
    pending,          \* the message readPump is handing to Hub.broadcast
    wp,               \* whether writePump of a client runs
    boot,             \* where the history goroutine of HandleConnections stands
    hist,             \* the messages the history goroutine has still to send
    unreadIDs,        \* unreadMessageIDs of the history goroutine
    messages,         \* the messages collection, in insertion order
    chatRooms,        \* the chatrooms collection: room id -> participants
    fatal,            \* the unrecovered panic or fatal error that ended the process
    page,             \* HomePage.tsx: chatRooms, selectedRoom, messages of the page
    issued,           \* the last call of GenerateJWT and of GetUserIDFromToken
    invitation,       \* the invitation Hub.Run waits in CreateInvitation for
    join,             \* where the JoinRoom call of a HandleJoinRoom stands
    create,           \* the CreateChatRoom requests between find and insert
    observed          \* history variable: the step a specification last recorded

vars == <<clients, clientsByUserID, roomClients, send, closed, pc, pending, wp,
          boot, hist, unreadIDs, messages, chatRooms, fatal, page, issued,
          invitation, join, create, observed>>

\* the variables of the server's hub, goroutines and collections
serverVars == <<clients, clientsByUserID, roomClients, send, closed, pc, pending,
                wp, boot, hist, unreadIDs, messages, chatRooms, fatal,
                invitation, join, create>>

hubVars == <<clients, clientsByUserID, roomClients, send, closed, fatal>>
bootVars == <<boot, hist, unreadIDs>>

NoMessage == [id |-> NilMessageID, type |-> "", roomId |-> NilObjectID,
              senderId |-> NilObjectID, senderUsername |-> "",
              recipientId |-> NilObjectID, content |-> "", timestamp |-> 0,
              isRead |-> FALSE]

(***************************************************************************)
(* Go maps.                                                                *)
(***************************************************************************)
MapDelete(m, k) == [x \in (DOMAIN m) \ {k} |-> m[x]]
MapPut(m, k, v) == [x \in (DOMAIN m) \cup {k} |-> IF x = k THEN v ELSE m[x]]

\* the elements of a slice
Range(s) == {s[i] : i \in 1..Len(s)}

(***************************************************************************)
(* The state the hub's code reads and writes, as one record, so that the   *)
(* statements of a case of Hub.Run compose in program order.               *)
(***************************************************************************)
HubState == [clients |-> clients, clientsByUserID |-> clientsByUserID,
             roomClients |-> roomClients, send |-> send, closed |-> closed,
             fatal |-> fatal]

SetHub(h) ==
    /\ clients' = h.clients
    /\ clientsByUserID' = h.clientsByUserID
    /\ roomClients' = h.roomClients
    /\ send' = h.send
    /\ closed' = h.closed
    /\ fatal' = h.fatal

\* close(c.send): closing a closed channel panics
CloseSend(h, c) ==
    IF h.closed[c] THEN [h EXCEPT !.fatal = CloseOfClosed]
    ELSE [h EXCEPT !.closed[c] = TRUE]

\* the default branch of the selects of Hub.Run: close, delete from both maps
EvictClient(h, c) ==
    LET h1 == CloseSend(h, c) IN
    IF h1.fatal # NoFatal THEN h1
    ELSE [h1 EXCEPT !.clients = @ \ {c},
                    !.clientsByUserID = MapDelete(@, UserIDOf(c))]

\* the default branch of the selects of BroadcastToRoom and JoinRoom
EvictRoomClient(h, roomID, c) ==
    LET h1 == CloseSend(h, c) IN
    IF h1.fatal # NoFatal THEN h1
    ELSE [h1 EXCEPT !.roomClients[roomID] = @ \ {c},
                    !.clients = @ \ {c},
                    !.clientsByUserID = MapDelete(@, UserIDOf(c))]

\* select { case c.send <- m: default: ... }: a send on a closed channel panics,
\* a send on a channel with room succeeds, otherwise the default branch runs
SelectSend(h, c, m) ==
    IF h.fatal # NoFatal THEN h
    ELSE IF h.closed[c] THEN [h EXCEPT !.fatal = SendOnClosed]
    ELSE IF Len(h.send[c]) < QueueCap THEN [h EXCEPT !.send[c] = Append(@, m)]
    ELSE EvictClient(h, c)

\* a hub that makes room in a full channel by taking out its oldest message
SelectSendRoomDropOldest(h, roomID, c, m) ==
    IF h.fatal # NoFatal THEN h
    ELSE IF h.closed[c] THEN [h EXCEPT !.fatal = SendOnClosed]
    ELSE IF Len(h.send[c]) < QueueCap THEN [h EXCEPT !.send[c] = Append(@, m)]
    ELSE [h EXCEPT !.send[c] = Append(Tail(@), m)]

SelectSendRoom(h, roomID, c, m) ==
    IF h.fatal # NoFatal THEN h
    ELSE IF h.closed[c] THEN [h EXCEPT !.fatal = SendOnClosed]
    ELSE IF Len(h.send[c]) < QueueCap THEN [h EXCEPT !.send[c] = Append(@, m)]
    ELSE EvictRoomClient(h, roomID, c)

\* for client := range clients { select ... }: the loop body applied to the
\* clients of todo in some order.  The body touches only the client it is
\* applied to and deletes map keys, so the result is the same for every order.
RECURSIVE RangeSend(_, _, _, _)
RangeSend(h, roomID, todo, m) ==
    IF todo = {} THEN h
    ELSE LET c == CHOOSE x \in todo : TRUE
         IN RangeSend(SelectSendRoom(h, roomID, c, m), roomID, todo \ {c}, m)

\* The range loop over a room's clients.  Go ranges over a map in an
\* unspecified order and a send on a closed channel panics in the middle of
\* the loop: visited is the set of clients the loop reached before that.
RangeOutcome(h, roomID, visited, m) ==
    LET all == h.roomClients[roomID]
        dead == {c \in all : h.closed[c]}
    IN IF dead = {} THEN RangeSend(h, roomID, all, m)
       ELSE [RangeSend(h, roomID, visited, m) EXCEPT !.fatal = SendOnClosed]

RangeVisits(h, roomID) ==
    LET all == h.roomClients[roomID]
        dead == {c \in all : h.closed[c]}
    IN IF dead = {} THEN {all} ELSE SUBSET (all \ dead)


(***************************************************************************)
(* Inbound frames: the JSON text a client writes to its socket.  wellFormed*)
(* is whether json.Unmarshal into models.Message succeeds; the other       *)
(* fields are the JSON members models.Message declares.                    *)
(***************************************************************************)
Frame(wf, id, type, room, sender, name, recipient, ts) ==
    [wellFormed |-> wf, id |-> id, type |-> type, roomId |-> room,
     senderId |-> sender, senderUsername |-> name, recipientId |-> recipient,
     content |-> "hi", timestamp |-> ts, isRead |-> FALSE]

\* the logical clock: time.Now() grows with every stored message
Now == Len(messages) + 1

\* a json.Unmarshal that never fails
UnmarshalAnything(f) == TRUE

\* readPump, lines 119-123: json.Unmarshal(p, &msg) returned no error
Unmarshal(f) == f.wellFormed

\* a readPump that leaves the type of the frame as it is
StampFrameNoDefault(c, f) ==
    [id |-> f.id,
     type |-> f.type,
     roomId |-> f.roomId,
     senderId |-> UserIDOf(c),
     senderUsername |-> UsernameOf(c),
     recipientId |-> f.recipientId,
     content |-> f.content,
     timestamp |-> Now,
     isRead |-> f.isRead]

\* a readPump that fills sender and time only where the frame left them out
StampFrameTrusting(c, f) ==
    [id |-> f.id,
     type |-> IF f.type = "" THEN MessageTypeChat ELSE f.type,
     roomId |-> f.roomId,
     senderId |-> IF f.senderId = NilObjectID THEN UserIDOf(c) ELSE f.senderId,
     senderUsername |-> IF f.senderUsername = "" THEN UsernameOf(c)
                        ELSE f.senderUsername,
     recipientId |-> f.recipientId,
     content |-> f.content,
     timestamp |-> IF f.timestamp = 0 THEN Now ELSE f.timestamp,
     isRead |-> f.isRead]

\* readPump, lines 126-133: sender and time come from the connection, the
\* type defaults to chat; every other member is what json.Unmarshal decoded
StampFrame(c, f) ==
    [id |-> f.id,
     type |-> IF f.type = "" THEN MessageTypeChat ELSE f.type,
     roomId |-> f.roomId,
     senderId |-> UserIDOf(c),
     senderUsername |-> UsernameOf(c),
     recipientId |-> f.recipientId,
     content |-> f.content,
     timestamp |-> Now,
     isRead |-> f.isRead]

\* a readPump without the check of lines 136-143
RoomCheckSkipped(c, msg) == TRUE

\* readPump, lines 136-143: a room frame is accepted only from a client of
\* the room's connection set
RoomCheckPasses(c, msg) ==
    msg.roomId = NilObjectID
    \/ (msg.roomId \in DOMAIN roomClients /\ c \in roomClients[msg.roomId])

(***************************************************************************)
(* The messages collection.  Message has bson:"_id,omitempty": InsertOne   *)
(* generates an _id for a zero ID and keeps a non-zero one, and rejects a  *)
(* second document with an _id the collection holds.                       *)
(***************************************************************************)
StoredIDs == {messages[i].id : i \in 1..Len(messages)}

\* the ObjectID the driver generates: none the collection holds
FreshID == Len(messages) + 1

InsertedID(msg) == IF msg.id = NilMessageID THEN FreshID ELSE msg.id

DuplicateKey(msg) == msg.id # NilMessageID /\ msg.id \in StoredIDs

\* InsertMessage: the document written (IsRead forced to false)
InsertedDoc(msg) == [msg EXCEPT !.id = InsertedID(msg), !.isRead = FALSE]

(***************************************************************************)
(* Hub.LeaveRoom and the cases of Hub.Run.                                 *)
(***************************************************************************)
LeaveRoom(h, roomID, c) ==
    IF roomID \in DOMAIN h.roomClients
    THEN LET left == h.roomClients[roomID] \ {c}
         IN IF left = {}
            THEN [h EXCEPT !.roomClients = MapDelete(@, roomID)]
            ELSE [h EXCEPT !.roomClients[roomID] = left]
    ELSE h

\* for roomID := range h.roomClients { h.LeaveRoom(roomID, client) }
RECURSIVE LeaveRooms(_, _, _)
LeaveRooms(h, todo, c) ==
    IF todo = {} THEN h
    ELSE LET r == CHOOSE x \in todo : TRUE
         IN LeaveRooms(LeaveRoom(h, r, c), todo \ {r}, c)

\* case client := <-h.register
RegisterCase(h, c) ==
    [h EXCEPT !.clients = @ \cup {c},
              !.clientsByUserID = MapPut(@, UserIDOf(c), c)]

\* the unregister case without its test of h.clients
UnregisterCaseUnguarded(h, c) ==
    LET h1 == LeaveRooms(h, DOMAIN h.roomClients, c)
        h2 == [h1 EXCEPT !.clients = @ \ {c},
                         !.clientsByUserID = MapDelete(@, UserIDOf(c))]
    IN CloseSend(h2, c)

\* case client := <-h.unregister
UnregisterCase(h, c) ==
    IF c \in h.clients
    THEN LET h1 == LeaveRooms(h, DOMAIN h.roomClients, c)
             h2 == [h1 EXCEPT !.clients = @ \ {c},
                              !.clientsByUserID = MapDelete(@, UserIDOf(c))]
         IN CloseSend(h2, c)
    ELSE h

\* a hub that sends a message with a recipient to the clients of its room too
PrivateCaseAlsoRoom(h, m) ==
    LET h1 == IF m.recipientId \in DOMAIN h.clientsByUserID
              THEN SelectSend(h, h.clientsByUserID[m.recipientId], m)
              ELSE h
    IN IF h1.fatal # NoFatal \/ m.roomId \notin DOMAIN h1.roomClients THEN h1
       ELSE RangeSend(h1, m.roomId,
                      {x \in h1.roomClients[m.roomId] : ~h1.closed[x]} \
                         {h.clientsByUserID[u] :
                             u \in {m.recipientId} \cap DOMAIN h.clientsByUserID},
                      m)

\* case message := <-h.broadcast, the branch of a message with a recipient
PrivateCase(h, m) ==
    LET h1 == IF m.recipientId \in DOMAIN h.clientsByUserID
              THEN SelectSend(h, h.clientsByUserID[m.recipientId], m)
              ELSE h
    IN IF h1.fatal # NoFatal THEN h1
       ELSE IF m.senderId \in DOMAIN h1.clientsByUserID
               /\ UserIDOf(h1.clientsByUserID[m.senderId]) # m.recipientId
            THEN SelectSend(h1, h1.clientsByUserID[m.senderId], m)
            ELSE h1

\* Hub.BroadcastToRoom
BroadcastToRoom(h, roomID, visited, m) ==
    IF roomID \in DOMAIN h.roomClients THEN RangeOutcome(h, roomID, visited, m)
    ELSE h

BroadcastVisits(h, m) ==
    IF m.recipientId = NilObjectID /\ m.roomId # NilObjectID
       /\ m.roomId \in DOMAIN h.roomClients
    THEN RangeVisits(h, m.roomId)
    ELSE {{}}

\* case message := <-h.broadcast
BroadcastCase(h, visited, m) ==
    IF m.recipientId # NilObjectID THEN PrivateCase(h, m)
    ELSE IF m.roomId # NilObjectID THEN BroadcastToRoom(h, m.roomId, visited, m)
    ELSE h

\* Hub.JoinRoom
JoinMessage(roomID, c) ==
    [id |-> NilMessageID, type |-> MessageTypeSystem, roomId |-> roomID,
     senderId |-> UserIDOf(c), senderUsername |-> SystemUsername,
     recipientId |-> NilObjectID, content |-> "joined", timestamp |-> Now,
     isRead |-> FALSE]

JoinAdd(h, roomID, c) ==
    [h EXCEPT !.roomClients =
        MapPut(@, roomID, (IF roomID \in DOMAIN @ THEN @[roomID] ELSE {}) \cup {c})]

JoinRoom(h, roomID, c, visited) ==
    RangeOutcome(JoinAdd(h, roomID, c), roomID, visited, JoinMessage(roomID, c))

\* case invitation := <-h.invitation, after CreateInvitation succeeded
InviteMessage(inviter, invitee, roomID) ==
    [id |-> NilMessageID, type |-> MessageTypeSystem, roomId |-> roomID,
     senderId |-> inviter, senderUsername |-> SystemUsername,
     recipientId |-> invitee, content |-> "invited", timestamp |-> Now,
     isRead |-> FALSE]

InvitationCase(h, inviter, invitee, roomID) ==
    IF invitee \in DOMAIN h.clientsByUserID
    THEN SelectSend(h, h.clientsByUserID[invitee],
                    InviteMessage(inviter, invitee, roomID))
    ELSE h


(***************************************************************************)
(* The initial state: the hub of NewHub, no connection yet, an empty       *)
(* messages collection and one chat room, r1, created with member u1.      *)
(* No document of the chatrooms collection has the id r2.                  *)
(***************************************************************************)
EmptyMap == [x \in {} |-> x]

\* HomePage.tsx, lines 40-44: no chat rooms, no selected room, an empty Map
\* of messages; refetch is whether a call of fetchUserChatRooms is under way
NoRoom == [id |-> NilObjectID, name |-> "", updatedAt |-> 0]

NewPage == [chatRooms |-> <<>>, selectedRoom |-> NoRoom, messages |-> EmptyMap,
            refetch |-> TRUE]

\* no token was generated yet
NothingIssued ==
    [call |-> "none", now |-> 0, userID |-> <<>>, username |-> <<>>, secret |-> <<>>,
     token |-> <<>>, err |-> "", with |-> <<>>, result |-> <<>>, resultErr |-> ""]

\* Hub.Run is at its select: it waits for no insert of an invitation
NoInvitation == [inviter |-> NilObjectID, invitee |-> NilObjectID,
                 roomId |-> NilObjectID]

\* no HandleJoinRoom is inside JoinRoom, and none has panicked
NoJoin == [at |-> "idle", roomId |-> NilObjectID, client |-> "",
           panic |-> NoFatal]

\* the CreateChatRoom requests the model runs side by side
CreateRequests == {"q1", "q2"}

\* no CreateChatRoom is between FindChatRoomByParticipants and InsertChatRoom
NoCreate == [at |-> "idle", creator |-> NilObjectID, participants |-> <<>>]

Op(name, c, arg) == [op |-> name, c |-> c, arg |-> arg]

Init ==
    /\ clients = {}
    /\ clientsByUserID = EmptyMap
    /\ roomClients = EmptyMap
    /\ send = [c \in Clients |-> <<>>]
    /\ closed = [c \in Clients |-> FALSE]
    /\ pc = [c \in Clients |-> "new"]
    /\ pending = [c \in Clients |-> NoMessage]
    /\ wp = [c \in Clients |-> "off"]
    /\ boot = [c \in Clients |-> "off"]
    /\ hist = [c \in Clients |-> <<>>]
    /\ unreadIDs = [c \in Clients |-> {}]
    /\ messages = <<>>
    /\ chatRooms = [r \in {"r1"} |-> <<"u1">>]
    /\ fatal = NoFatal
    /\ page = NewPage
    /\ issued = NothingIssued
    /\ invitation = NoInvitation
    /\ join = NoJoin
    /\ create = [q \in CreateRequests |-> NoCreate]
    /\ observed = Op("NewHub", "", "")

\* an unrecovered panic ends the process: no goroutine takes a step after it
Alive == fatal = NoFatal

(***************************************************************************)
(* HandleConnections up to readPump: the upgrade succeeded, the client is  *)
(* created and sent to Hub.register, and Hub.Run executes the register     *)
(* case; then the history goroutine and writePump are started.             *)
(***************************************************************************)
HandleConnections(c) ==
    /\ Alive
    /\ pc[c] = "new"
    /\ SetHub(RegisterCase(HubState, c))
    /\ pc' = [pc EXCEPT ![c] = "read"]
    /\ wp' = [wp EXCEPT ![c] = "run"]
    /\ boot' = [boot EXCEPT ![c] = "fetch"]
    /\ UNCHANGED <<pending, hist, unreadIDs, messages, chatRooms>>

(***************************************************************************)
(* HandleConnections from the request: the query parameters userId and     *)
(* username are checked before upgrader.Upgrade.  A parameter is a         *)
(* sequence of characters; a missing parameter is the empty one.           *)
(***************************************************************************)
\* the bytes of an ObjectID (12 in the driver) and the length of its hex form
ObjectIDLen == 1
ObjectIDHexLen == 2 * ObjectIDLen

HexDigits == {"0", "1", "2", "3", "4", "5", "6", "7", "8", "9",
              "a", "b", "c", "d", "e", "f", "A", "B", "C", "D", "E", "F"}

\* whether primitive.ObjectIDFromHex(s) returns without an error
ObjectIDFromHexOK(s) ==
    /\ Len(s) = ObjectIDHexLen
    /\ \A k \in 1..Len(s) : s[k] \in HexDigits

\* a handler that upgrades whatever the query holds
ValidConnectAlways(q) == TRUE

\* lines 458-467: neither parameter is empty and the user id parses
ValidConnect(q) ==
    /\ ~(q.userId = <<>> \/ q.username = <<>>)
    /\ ObjectIDFromHexOK(q.userId)

StatusBadRequest == "400 Bad Request"
StatusSwitchingProtocols == "101 Switching Protocols"

\* the status of the response
ConnectStatus(q) ==
    IF ValidConnect(q) THEN StatusSwitchingProtocols ELSE StatusBadRequest

\* the queries of the requests: a well-formed one, one without userId, one
\* without username, and user ids too short, too long and with a character
\* that is no hex digit
ConnectQueries ==
    LET hex == [k \in 1..ObjectIDHexLen |-> "a"]
        name == <<"b", "o", "b">>
    IN {[userId |-> hex, username |-> name],
        [userId |-> <<>>, username |-> name],
        [userId |-> hex, username |-> <<>>],
        [userId |-> SubSeq(hex, 1, ObjectIDHexLen - 1), username |-> name],
        [userId |-> Append(hex, "a"), username |-> name],
        [userId |-> [hex EXCEPT ![1] = "g"], username |-> name]}

\* HandleConnections(w, r) for the socket c and the query q of r
HandleConnectionsRequest(c, q) ==
    IF ValidConnect(q) THEN HandleConnections(c)
    ELSE /\ Alive
         /\ pc[c] = "new"
         /\ UNCHANGED serverVars

(***************************************************************************)
(* Client.readPump: one iteration of the loop on an inbound frame f.       *)
(* ok is whether the database accepts the insert.                          *)
(***************************************************************************)
\* a readPump that logs the failed insert and goes on to the broadcast
InsertFailedBroadcasts(c, msg) ==
    /\ pending' = [pending EXCEPT ![c] = msg]
    /\ pc' = [pc EXCEPT ![c] = "bcast"]
    /\ UNCHANGED messages

\* a readPump that logs the failed insert and reads the next frame
InsertFailedContinues(c, msg) ==
    UNCHANGED <<pc, pending, messages>>

\* readPump, lines 146-150: InsertMessage failed: return, the deferred
\* unregister runs
InsertFailed(c, msg) ==
    /\ pc' = [pc EXCEPT ![c] = "unreg"]
    /\ UNCHANGED <<pending, messages>>

ReadPumpFrame(c, f, ok) ==
    /\ Alive
    /\ pc[c] = "read"
    /\ UNCHANGED <<hubVars, wp, bootVars, chatRooms>>
    /\ IF ~Unmarshal(f)
       THEN \* json.Unmarshal failed: continue
            UNCHANGED <<pc, pending, messages>>
       ELSE LET msg == StampFrame(c, f) IN
            IF ~RoomCheckPasses(c, msg)
            THEN \* not a client of the room: continue
                 UNCHANGED <<pc, pending, messages>>
            ELSE IF ~ok \/ DuplicateKey(msg)
            THEN InsertFailed(c, msg)
            ELSE /\ Len(messages) < MaxMessages
                 /\ messages' = Append(messages, InsertedDoc(msg))
                 /\ pending' = [pending EXCEPT ![c] = [msg EXCEPT !.id = InsertedID(msg)]]
                 /\ pc' = [pc EXCEPT ![c] = "bcast"]

\* ReadMessage returned an error (the peer closed, the socket failed or the
\* read deadline passed): break, the deferred unregister runs
ReadPumpError(c) ==
    /\ Alive
    /\ pc[c] = "read"
    /\ pc' = [pc EXCEPT ![c] = "unreg"]
    /\ UNCHANGED <<hubVars, pending, wp, bootVars, messages, chatRooms>>

(***************************************************************************)
(* Hub.Run: the broadcast and unregister cases, taken when the hub receives*)
(* what a readPump is sending.                                             *)
(***************************************************************************)
RunBroadcast(c) ==
    /\ Alive
    /\ pc[c] = "bcast"
    /\ \E visited \in BroadcastVisits(HubState, pending[c]) :
          SetHub(BroadcastCase(HubState, visited, pending[c]))
    /\ pc' = [pc EXCEPT ![c] = "read"]
    /\ pending' = [pending EXCEPT ![c] = NoMessage]
    /\ UNCHANGED <<wp, bootVars, messages, chatRooms>>

RunUnregister(c) ==
    /\ Alive
    /\ pc[c] = "unreg"
    /\ SetHub(UnregisterCase(HubState, c))
    /\ pc' = [pc EXCEPT ![c] = "gone"]
    /\ UNCHANGED <<pending, wp, bootVars, messages, chatRooms>>

(***************************************************************************)
(* HandleInvitation and the invitation case of Hub.Run, after              *)
(* CreateInvitation succeeded (a failed insert changes nothing).           *)
(***************************************************************************)
RunInvitation(inviter, invitee, roomID) ==
    /\ Alive
    /\ SetHub(InvitationCase(HubState, inviter, invitee, roomID))
    /\ UNCHANGED <<pc, pending, wp, bootVars, messages, chatRooms>>

(***************************************************************************)
(* HandleJoinRoom, after both database updates succeeded.  UpdateOne on a  *)
(* room id no document has matches nothing and returns no error.  The      *)
(* handler then looks the user up in GlobalHub.clientsByUserID and calls   *)
(* JoinRoom in its own goroutine.                                          *)
(***************************************************************************)
AddMemberToChatRoom(rooms, roomID, u) ==
    IF roomID \in DOMAIN rooms /\ u \notin Range(rooms[roomID])
    THEN [rooms EXCEPT ![roomID] = Append(@, u)]
    ELSE rooms

\* HandleJoinRoom runs in the goroutine net/http serves the request in, and
\* net/http recovers a panic of a handler: the handler stops where it
\* panicked, what it had written stays, and the process goes on
Recovered(h) == [h EXCEPT !.fatal = NoFatal]

HandleJoinRoom(u, roomID) ==
    /\ Alive
    /\ chatRooms' = AddMemberToChatRoom(chatRooms, roomID, u)
    /\ IF u \in DOMAIN clientsByUserID
       THEN LET c == clientsByUserID[u]
                h == JoinAdd(HubState, roomID, c)
            IN \E visited \in RangeVisits(h, roomID) :
                  SetHub(Recovered(JoinRoom(HubState, roomID, c, visited)))
       ELSE UNCHANGED hubVars
    /\ UNCHANGED <<pc, pending, wp, bootVars, messages>>

(***************************************************************************)
(* Client.writePump.                                                       *)
(***************************************************************************)
\* case message, ok := <-c.send with a message: it is written to the socket;
\* written is whether WriteMessage succeeded
WritePumpMessage(c, written) ==
    /\ Alive
    /\ wp[c] = "run"
    /\ send[c] # <<>>
    /\ send' = [send EXCEPT ![c] = Tail(@)]
    /\ wp' = [wp EXCEPT ![c] = IF written THEN "run" ELSE "stopped"]
    /\ UNCHANGED <<clients, clientsByUserID, roomClients, closed, fatal, pc,
                   pending, bootVars, messages, chatRooms>>

\* case message, ok := <-c.send on the closed and drained channel: the close
\* frame is written and writePump returns
WritePumpClosed(c) ==
    /\ Alive
    /\ wp[c] = "run"
    /\ send[c] = <<>>
    /\ closed[c]
    /\ wp' = [wp EXCEPT ![c] = "stopped"]
    /\ UNCHANGED <<hubVars, pc, pending, bootVars, messages, chatRooms>>

(***************************************************************************)
(* The history goroutine of HandleConnections, lines 486-528.              *)
(***************************************************************************)
Min(a, b) == IF a < b THEN a ELSE b

\* GetMessages(limit): the limit newest messages, newest first.  The
\* collection is kept in insertion order, which is the order of timestamps.
GetMessages(limit) ==
    LET n == Len(messages)
    IN [i \in 1..Min(limit, n) |-> messages[n + 1 - i]]

\* for i := len(historicalMessages) - 1; i >= 0; i--: the order of the sends
SendOrder(fetched) ==
    [i \in 1..Len(fetched) |-> fetched[Len(fetched) + 1 - i]]

\* GetUnreadMessages(recipientID): the unread messages to a user, oldest first
RECURSIVE SelectUnread(_, _)
SelectUnread(docs, u) ==
    IF docs = <<>> THEN <<>>
    ELSE LET d == Head(docs)
         IN IF d.recipientId = u /\ ~d.isRead
            THEN <<d>> \o SelectUnread(Tail(docs), u)
            ELSE SelectUnread(Tail(docs), u)

GetUnreadMessages(u) == SelectUnread(messages, u)

\* a MarkMessagesAsRead that marks every unread message of the recipients of
\* the listed messages
MarkRecipientsAsRead(ids) ==
    LET rs == {messages[i].recipientId : i \in {j \in 1..Len(messages) : messages[j].id \in ids}}
    IN [i \in 1..Len(messages) |->
          IF messages[i].recipientId \in rs THEN [messages[i] EXCEPT !.isRead = TRUE]
          ELSE messages[i]]

\* MarkMessagesAsRead(messageIDs)
MarkMessagesAsRead(ids) ==
    [i \in 1..Len(messages) |->
        IF messages[i].id \in ids THEN [messages[i] EXCEPT !.isRead = TRUE]
        ELSE messages[i]]

\* database.GetMessages(50); ok is whether the query succeeded
BootFetch(c, ok) ==
    /\ Alive
    /\ boot[c] = "fetch"
    /\ IF ok
       THEN /\ hist' = [hist EXCEPT ![c] = SendOrder(GetMessages(HistoryLimit))]
            /\ boot' = [boot EXCEPT ![c] = "history"]
       ELSE /\ boot' = [boot EXCEPT ![c] = "failed"]
            /\ UNCHANGED hist
    /\ UNCHANGED <<hubVars, pc, pending, wp, unreadIDs, messages, chatRooms>>

\* one iteration of the history loop: the send on client.send is taken when
\* the channel has room and panics when the channel is closed
BootSendHistory(c) ==
    /\ Alive
    /\ boot[c] = "history"
    /\ hist[c] # <<>>
    /\ \/ closed[c] /\ fatal' = SendOnClosed /\ UNCHANGED <<send, hist>>
       \/ /\ ~closed[c]
          /\ Len(send[c]) < QueueCap
          /\ send' = [send EXCEPT ![c] = Append(@, Head(hist[c]))]
          /\ hist' = [hist EXCEPT ![c] = Tail(@)]
          /\ UNCHANGED fatal
    /\ UNCHANGED <<clients, clientsByUserID, roomClients, closed, pc, pending, wp,
                   boot, unreadIDs, messages, chatRooms>>

\* case <-time.After(time.Second) of the history loop: the channel stayed
\* full for a second, the goroutine returns
BootHistoryTimeout(c) ==
    /\ Alive
    /\ boot[c] = "history"
    /\ hist[c] # <<>>
    /\ ~closed[c]
    /\ Len(send[c]) >= QueueCap
    /\ boot' = [boot EXCEPT ![c] = "timedout"]
    /\ hist' = [hist EXCEPT ![c] = <<>>]
    /\ UNCHANGED <<hubVars, pc, pending, wp, unreadIDs, messages, chatRooms>>

\* database.GetUnreadMessages(client.UserID) after the history loop
BootFetchUnread(c, ok) ==
    /\ Alive
    /\ boot[c] = "history"
    /\ hist[c] = <<>>
    /\ IF ok
       THEN /\ hist' = [hist EXCEPT ![c] = GetUnreadMessages(UserIDOf(c))]
            /\ boot' = [boot EXCEPT ![c] = "unread"]
       ELSE /\ boot' = [boot EXCEPT ![c] = "failed"]
            /\ UNCHANGED hist
    /\ UNCHANGED <<hubVars, pc, pending, wp, unreadIDs, messages, chatRooms>>

\* one iteration of the unread loop: a sent message's id is appended to
\* unreadMessageIDs
BootSendUnread(c) ==
    /\ Alive
    /\ boot[c] = "unread"
    /\ hist[c] # <<>>
    /\ \/ closed[c] /\ fatal' = SendOnClosed /\ UNCHANGED <<send, hist, unreadIDs>>
       \/ /\ ~closed[c]
          /\ Len(send[c]) < QueueCap
          /\ send' = [send EXCEPT ![c] = Append(@, Head(hist[c]))]
          /\ unreadIDs' = [unreadIDs EXCEPT ![c] = @ \cup {Head(hist[c]).id}]
          /\ hist' = [hist EXCEPT ![c] = Tail(@)]
          /\ UNCHANGED fatal
    /\ UNCHANGED <<clients, clientsByUserID, roomClients, closed, pc, pending, wp,
                   boot, messages, chatRooms>>

\* case <-time.After(time.Second) of the unread loop: the message is skipped
BootUnreadTimeout(c) ==
    /\ Alive
    /\ boot[c] = "unread"
    /\ hist[c] # <<>>
    /\ ~closed[c]
    /\ Len(send[c]) >= QueueCap
    /\ hist' = [hist EXCEPT ![c] = Tail(@)]
    /\ UNCHANGED <<hubVars, pc, pending, wp, boot, unreadIDs, messages, chatRooms>>

\* after the unread loop: MarkMessagesAsRead when some message was sent
BootMarkRead(c) ==
    /\ Alive
    /\ boot[c] = "unread"
    /\ hist[c] = <<>>
    /\ messages' = IF unreadIDs[c] # {} THEN MarkMessagesAsRead(unreadIDs[c])
                   ELSE messages
    /\ boot' = [boot EXCEPT ![c] = "done"]
    /\ UNCHANGED <<hubVars, pc, pending, wp, hist, unreadIDs, chatRooms>>

(***************************************************************************)
(* The history of a chat room, database.GetChatHistory(roomID), and the    *)
(* handler LeaveChatRoom, which stores a room_state_update message.        *)
(***************************************************************************)
MessageTypeUpdate == "room_state_update"

\* SetLimit(50) of GetChatHistory
ChatHistoryLimit == 2

\* the most messages the collection holds where LeaveChatRoom is called
MaxStored == 4

\* SetSort(timestamp: 1): ascending, documents of one timestamp in the order
\* of the collection
RECURSIVE InsertByTimestamp(_, _)
InsertByTimestamp(sorted, d) ==
    IF sorted = <<>> THEN <<d>>
    ELSE IF Head(sorted).timestamp <= d.timestamp
         THEN <<Head(sorted)>> \o InsertByTimestamp(Tail(sorted), d)
         ELSE <<d>> \o sorted

RECURSIVE SortByTimestamp(_)
SortByTimestamp(docs) ==
    IF docs = <<>> THEN <<>>
    ELSE InsertByTimestamp(SortByTimestamp(SubSeq(docs, 1, Len(docs) - 1)),
                           docs[Len(docs)])

\* filter := bson.M{"roomId": roomID}
RECURSIVE FindByRoom(_, _)
FindByRoom(docs, roomID) ==
    IF docs = <<>> THEN <<>>
    ELSE IF Head(docs).roomId = roomID
         THEN <<Head(docs)>> \o FindByRoom(Tail(docs), roomID)
         ELSE FindByRoom(Tail(docs), roomID)

\* GetChatHistory(roomID): Find with the filter, the sort and the limit
GetChatHistory(roomID) ==
    LET found == SortByTimestamp(FindByRoom(messages, roomID))
    IN SubSeq(found, 1, Min(ChatHistoryLimit, Len(found)))

\* the two messages of LeaveChatRoom
LeaveSystemMessage(u, roomID) ==
    [id |-> NilMessageID, type |-> MessageTypeSystem, roomId |-> roomID,
     senderId |-> u, senderUsername |-> SystemUsername,
     recipientId |-> NilObjectID, content |-> "left", timestamp |-> Now,
     isRead |-> TRUE]

RoomUpdateMessage(roomID, id, ts) ==
    [id |-> id, type |-> MessageTypeUpdate, roomId |-> roomID,
     senderId |-> NilObjectID, senderUsername |-> "update",
     recipientId |-> NilObjectID, content |-> "updated", timestamp |-> ts,
     isRead |-> TRUE]

\* LeaveChatRoom for the user u of the request context and the room roomID,
\* when both InsertMessage calls succeed.  The system message is broadcast
\* before it is stored, the update message
\* after it was stored and given its id; InsertMessage stores IsRead false.
LeaveChatRoom(u, roomID) ==
    /\ Alive
    /\ roomID \in DOMAIN chatRooms
    /\ Len(messages) + 2 <= MaxStored
    /\ LET newParticipants == SelectSeq(chatRooms[roomID], LAMBDA p : p # u)
           system == LeaveSystemMessage(u, roomID)
           stored1 == Append(messages, [system EXCEPT !.id = FreshID, !.isRead = FALSE])
           update == RoomUpdateMessage(roomID, Len(stored1) + 1, Len(stored1) + 1)
           stored2 == Append(stored1, [update EXCEPT !.isRead = FALSE])
       IN /\ chatRooms' = IF newParticipants # <<>>
                          THEN [chatRooms EXCEPT ![roomID] = newParticipants]
                          ELSE MapDelete(chatRooms, roomID)
          /\ messages' = stored2
          /\ \E v1 \in BroadcastVisits(HubState, system) :
                LET h1 == BroadcastCase(HubState, v1, system)
                IN \E v2 \in BroadcastVisits(h1, update) :
                      SetHub(IF h1.fatal = NoFatal
                             THEN BroadcastCase(h1, v2, update) ELSE h1)
    /\ UNCHANGED <<pc, pending, wp, bootVars>>

(***************************************************************************)
(* The page of the client, frontend/src/pages/HomePage.tsx: the handler    *)
(* newWs.onmessage and fetchUserChatRooms.                                 *)
(***************************************************************************)
\* the values of Message.type in frontend/src/types/index.ts
KindNormal == "normal"
KindUpdate == "room_state_update"

\* what JSON.parse(event.data) yields: the messages a socket may deliver
ReceivedMessages ==
    {[id |-> i, type |-> t, roomId |-> r, roomName |-> "renamed",
      senderUsername |-> "alice", content |-> "hi", timestamp |-> i] :
        i \in {1, 2},
        t \in {KindNormal, MessageTypeSystem, KindUpdate},
        r \in Rooms}

\* the user logged in on the page
PageUser == "u1"

\* the chat rooms getUserChatRooms returns for the user of the page
ServerRooms ==
    IF "r1" \in DOMAIN chatRooms /\ PageUser \in Range(chatRooms["r1"])
    THEN <<[id |-> "r1", name |-> "room", updatedAt |-> 0]>>
    ELSE <<>>

\* Array.prototype.sort with (a, b) => b.updatedAt - a.updatedAt: a stable
\* sort, newest first
RECURSIVE InsertRoom(_, _)
InsertRoom(sorted, room) ==
    IF sorted = <<>> THEN <<room>>
    ELSE IF Head(sorted).updatedAt >= room.updatedAt
         THEN <<Head(sorted)>> \o InsertRoom(Tail(sorted), room)
         ELSE <<room>> \o sorted

RECURSIVE SortRooms(_)
SortRooms(rooms) ==
    IF rooms = <<>> THEN <<>>
    ELSE InsertRoom(SortRooms(SubSeq(rooms, 1, Len(rooms) - 1)), rooms[Len(rooms)])

\* lines 132-135: the types setMessages is called for
Displayed(m) == m.type = KindNormal \/ m.type = MessageTypeSystem

\* lines 103-124: the updater passed to setChatRooms
UpdatedChatRooms(prev, m) ==
    LET roomExists == \E k \in 1..Len(prev) : prev[k].id = m.roomId
    IN IF ~roomExists /\ m.type # KindUpdate THEN prev
       ELSE SortRooms([k \in 1..Len(prev) |->
               IF prev[k].id = m.roomId
               THEN [prev[k] EXCEPT !.name = m.roomName, !.updatedAt = m.timestamp]
               ELSE prev[k]])

\* whether the handler calls fetchUserChatRooms (lines 101-102 and 108-109)
CallsFetch(prev, m) ==
    \/ m.type = KindUpdate
    \/ ~(\E k \in 1..Len(prev) : prev[k].id = m.roomId)

\* lines 126-130: the updater passed to setSelectedRoom
UpdatedSelectedRoom(prev, m) ==
    IF prev # NoRoom /\ prev.id = m.roomId THEN [prev EXCEPT !.name = m.roomName]
    ELSE prev

\* lines 136-146: the updater passed to setMessages
UpdatedMessages(prev, m) ==
    LET roomMessages == IF m.roomId \in DOMAIN prev THEN prev[m.roomId] ELSE <<>>
    IN IF \E k \in 1..Len(roomMessages) : roomMessages[k].id = m.id THEN prev
       ELSE MapPut(prev, m.roomId, Append(roomMessages, m))

\* newWs.onmessage, lines 99-148
OnMessage(m) ==
    /\ page' = [chatRooms |-> UpdatedChatRooms(page.chatRooms, m),
                selectedRoom |-> UpdatedSelectedRoom(page.selectedRoom, m),
                messages |-> IF Displayed(m) THEN UpdatedMessages(page.messages, m)
                             ELSE page.messages,
                refetch |-> page.refetch \/ CallsFetch(page.chatRooms, m)]
    /\ UNCHANGED <<serverVars, issued>>

\* handleSelectRoom(room), lines 197-204, for the k-th room of the list:
\* fetchChatHistory answers data.messages, or [] when the request failed
HandleSelectRoom(k, ok) ==
    /\ k \in 1..Len(page.chatRooms)
    /\ LET room == page.chatRooms[k]
           history == IF ok THEN GetChatHistory(room.id) ELSE <<>>
       IN page' = [chatRooms |-> page.chatRooms,
                   selectedRoom |-> room,
                   messages |-> MapPut(page.messages, room.id, history),
                   refetch |-> page.refetch]
    /\ UNCHANGED <<serverVars, issued>>

\* fetchUserChatRooms, lines 60-76, when getUserChatRooms has answered: the
\* sorted rooms, or no rooms after an error
FetchUserChatRooms(ok) ==
    /\ page.refetch
    /\ page' = [page EXCEPT !.chatRooms = IF ok THEN SortRooms(ServerRooms) ELSE <<>>,
                            !.refetch = FALSE]
    /\ UNCHANGED <<serverVars, issued>>

(***************************************************************************)
(* utils.GenerateJWT and utils.GetUserIDFromToken.  An ObjectID is its     *)
(* sequence of bytes, a string its sequence of characters.  A token is its *)
(* three segments before base64url: the header, the JSON text of the       *)
(* claims and the signature.                                               *)
(***************************************************************************)
\* time.Hour * 24, in ticks of the clock, and the last tick of the clock
TokenLifetime == 2
MaxClock == 3

LowerHex == <<"0", "1", "2", "3", "4", "5", "6", "7", "8", "9",
              "a", "b", "c", "d", "e", "f">>
UpperHex == <<"0", "1", "2", "3", "4", "5", "6", "7", "8", "9",
              "A", "B", "C", "D", "E", "F">>

\* ObjectID.Hex(): two lower-case digits for every byte
Hex(id) ==
    [k \in 1..(2 * Len(id)) |->
        LowerHex[(IF k % 2 = 1 THEN id[(k + 1) \div 2] \div 16
                  ELSE id[k \div 2] % 16) + 1]]

HexValue(ch) == CHOOSE v \in 0..15 : LowerHex[v + 1] = ch \/ UpperHex[v + 1] = ch

\* primitive.ObjectIDFromHex(s), when it returns without an error
ObjectIDFromHex(s) ==
    [k \in 1..ObjectIDLen |-> 16 * HexValue(s[2 * k - 1]) + HexValue(s[2 * k])]

ZeroObjectID == [k \in 1..ObjectIDLen |-> 0]

\* json.Marshal of a string: a quotation mark and a backslash are written
\* with a backslash before them
RECURSIVE JSONEscape(_)
JSONEscape(str) ==
    IF str = <<>> THEN <<>>
    ELSE IF Head(str) \in {"QUOTE", "BACKSLASH"}
         THEN <<"BACKSLASH", Head(str)>> \o JSONEscape(Tail(str))
         ELSE <<Head(str)>> \o JSONEscape(Tail(str))

\* the decoder: a backslash stands for the character after it
RECURSIVE JSONUnescape(_)
JSONUnescape(text) ==
    IF text = <<>> THEN <<>>
    ELSE IF Head(text) = "BACKSLASH" /\ Len(text) >= 2
         THEN <<text[2]>> \o JSONUnescape(Tail(Tail(text)))
         ELSE <<Head(text)>> \o JSONUnescape(Tail(text))

\* HMAC-SHA256 of the signing input under a key: a value that only the same
\* key and the same input give
HMAC(key, header, payload) == [key |-> key, header |-> header, payload |-> payload]

\* a token that expires the moment it is issued
ExpiresAtOnce(now) == now

\* time.Now().Add(time.Hour * 24).Unix()
ExpiresAt(now) == now + TokenLifetime

\* GenerateJWT(userID, username, secret) at the time now.  SignedString fails
\* only for a key that is no []byte, so err is always nil here.
GenerateJWT(userID, username, secret, now) ==
    LET header == [alg |-> "HS256", typ |-> "JWT"]
        payload == [userId |-> JSONEscape(Hex(userID)),
                    username |-> JSONEscape(username),
                    exp |-> ExpiresAt(now), iat |-> now]
    IN [token |-> <<header, payload, HMAC(secret, header, payload)>>, err |-> "nil"]

\* jwt.Parse with the key function of GetUserIDFromToken at the time now:
\* the method must be an HMAC one, the signature must be the HMAC under the
\* key, and exp must be after now
ParseError(token, jwtSecret, now) ==
    IF Len(token) # 3 THEN "token is malformed"
    ELSE IF token[1].alg \notin {"HS256", "HS384", "HS512"} THEN "unexpected signing method"
    ELSE IF token[3] # HMAC(jwtSecret, token[1], token[2]) THEN "signature is invalid"
    ELSE IF ~(now < token[2].exp) THEN "token is expired"
    ELSE "nil"

\* the MapClaims of a token: the JSON text decoded
Claims(token) ==
    [userId |-> JSONUnescape(token[2].userId),
     username |-> JSONUnescape(token[2].username),
     exp |-> token[2].exp, iat |-> token[2].iat]

\* GetUserIDFromToken(tokenString, jwtSecret) at the time now
GetUserIDFromToken(token, jwtSecret, now) ==
    IF ParseError(token, jwtSecret, now) # "nil"
    THEN [id |-> ZeroObjectID, err |-> ParseError(token, jwtSecret, now)]
    ELSE IF ~ObjectIDFromHexOK(Claims(token).userId)
    THEN [id |-> ZeroObjectID, err |-> "invalid user ID format in token"]
    ELSE [id |-> ObjectIDFromHex(Claims(token).userId), err |-> "nil"]

\* the inputs: ObjectIDs of bytes with every kind of hex digit, usernames
\* with characters JSON escapes, and secrets, the empty one among them
UserIDs == {[k \in 1..ObjectIDLen |-> b] : b \in {0, 9, 16, 171, 255}}
Usernames == {<<"a">>, <<"QUOTE", "a">>, <<"a", "BACKSLASH">>, <<"BACKSLASH", "QUOTE">>}
Secrets == {<<>>, <<"s">>, <<"t">>}

\* a call of GenerateJWT: the token and the inputs are kept
CallGenerateJWT(userID, username, secret) ==
    /\ issued.call = "none"
    /\ LET out == GenerateJWT(userID, username, secret, issued.now)
       IN issued' = [issued EXCEPT !.call = "generated", !.userID = userID,
                                   !.username = username, !.secret = secret,
                                   !.token = out.token, !.err = out.err]
    /\ UNCHANGED <<serverVars, page>>

\* a call of GetUserIDFromToken with the token generated
CallGetUserIDFromToken(jwtSecret) ==
    /\ issued.call # "none"
    /\ LET out == GetUserIDFromToken(issued.token, jwtSecret, issued.now)
       IN issued' = [issued EXCEPT !.call = "extracted", !.with = jwtSecret,
                                   !.result = out.id, !.resultErr = out.err]
    /\ UNCHANGED <<serverVars, page>>

\* time passes
Tick ==
    /\ issued.now < MaxClock
    /\ issued' = [issued EXCEPT !.now = @ + 1, !.call = IF @ = "none" THEN @ ELSE "generated",
                                !.with = <<>>, !.result = <<>>, !.resultErr = ""]
    /\ UNCHANGED <<serverVars, page>>

(***************************************************************************)
(* Specifications.  The actions above leave the history variable observed  *)
(* free; a specification records in it the steps its properties speak of.  *)
(***************************************************************************)
\* a step that records nothing and belongs to neither the page, the token
\* calls, the invitation case nor a racing JoinRoom
Quiet == UNCHANGED <<observed, page, issued, invitation, join, create>>

Record(name, c, arg) ==
    observed' = Op(name, c, arg) /\ UNCHANGED <<page, issued, invitation, join, create>>

\* the frames a client addresses to the rooms of RS
RoomFrames(RS) ==
    {Frame(TRUE, NilMessageID, "", r, NilObjectID, "", NilObjectID, 0) : r \in RS}

\* the connections of CS and the rooms of RS; every write to the socket
\* succeeds; rec is whether the frames read are recorded
HubNext(CS, RS, rec) ==
    \/ \E c \in CS : HandleConnections(c) /\ Quiet
    \/ \E c \in CS, f \in RoomFrames(RS), ok \in BOOLEAN :
          /\ ReadPumpFrame(c, f, ok)
          /\ IF rec THEN Record("frame", c, f) ELSE Quiet
    \/ \E c \in CS : ReadPumpError(c) /\ Quiet
    \/ \E c \in CS : RunBroadcast(c) /\ Quiet
    \/ \E c \in CS : RunUnregister(c) /\ Record("unregister", c, c \in clients)
    \/ \E u \in Users, r \in RS : HandleJoinRoom(u, r) /\ Quiet
    \/ \E c \in CS : WritePumpMessage(c, TRUE) /\ Quiet
    \/ \E c \in CS : WritePumpClosed(c) /\ Quiet

\* connections of two users and the chat room r1
Next == HubNext({"c1", "c3"}, {"r1"}, FALSE)
Spec == Init /\ [][Next]_vars

\* the same with r2, a room id no chat room has
NextRooms == HubNext({"c1", "c3"}, Rooms, FALSE)
SpecRooms == Init /\ [][NextRooms]_vars

\* two connections of one user and the chat room r1
NextDup == HubNext({"c1", "c2"}, {"r1"}, FALSE)
SpecDup == Init /\ [][NextDup]_vars

\* as Spec, recording every frame a readPump reads
NextFrames == HubNext({"c1", "c3"}, {"r1"}, TRUE)
SpecFrames == Init /\ [][NextFrames]_vars

\* u1, the participant of r1, and u2, who never becomes one: the database
\* accepts every insert, every frame read is recorded
NextOutsider ==
    \/ \E c \in {"c1", "c3"} : HandleConnections(c) /\ Quiet
    \/ \E c \in {"c1", "c3"}, f \in RoomFrames({"r1"}) :
          ReadPumpFrame(c, f, TRUE) /\ Record("frame", c, f)
    \/ \E c \in {"c1", "c3"} : ReadPumpError(c) /\ Quiet
    \/ \E c \in {"c1", "c3"} : RunBroadcast(c) /\ Quiet
    \/ \E c \in {"c1", "c3"} : RunUnregister(c) /\ Quiet
    \/ HandleJoinRoom("u1", "r1") /\ Quiet
    \/ \E c \in {"c1", "c3"} :
          WritePumpMessage(c, TRUE) /\ Quiet
    \/ \E c \in {"c1", "c3"} : WritePumpClosed(c) /\ Quiet

SpecOutsider == Init /\ [][NextOutsider]_vars

\* the frames with a recipient US: they name no room
PrivateFrames(US) ==
    {Frame(TRUE, NilMessageID, "", NilObjectID, NilObjectID, "", u, 0) : u \in US}

\* connections of two users with their history goroutines, and private
\* frames; a connection is recorded with the number of messages stored
\* before it
NextBoot ==
    \/ \E c \in {"c1", "c3"} :
          HandleConnections(c) /\ Record("HandleConnections", c, Len(messages))
    \/ \E c \in {"c1", "c3"}, f \in PrivateFrames({"u2"}), ok \in BOOLEAN :
          ReadPumpFrame(c, f, ok) /\ Quiet
    \/ \E c \in {"c1", "c3"} : ReadPumpError(c) /\ Quiet
    \/ \E c \in {"c1", "c3"} : RunBroadcast(c) /\ Quiet
    \/ \E c \in {"c1", "c3"} : RunUnregister(c) /\ Quiet
    \/ \E c \in {"c1", "c3"} : WritePumpMessage(c, TRUE) /\ Quiet
    \/ \E c \in {"c1", "c3"} : WritePumpClosed(c) /\ Quiet
    \/ \E c \in {"c1", "c3"}, ok \in BOOLEAN :
          BootFetch(c, ok) /\ Quiet
    \/ \E c \in {"c1", "c3"} : BootSendHistory(c) /\ Quiet
    \/ \E c \in {"c1", "c3"} : BootHistoryTimeout(c) /\ Quiet
    \/ \E c \in {"c1", "c3"}, ok \in BOOLEAN :
          BootFetchUnread(c, ok) /\ Quiet
    \/ \E c \in {"c1", "c3"} : BootSendUnread(c) /\ Quiet
    \/ \E c \in {"c1", "c3"} : BootUnreadTimeout(c) /\ Quiet
    \/ \E c \in {"c1", "c3"} : BootMarkRead(c) /\ Quiet

SpecBoot == Init /\ [][NextBoot]_vars

\* private frames to u1 in which the peer chose the id, the timestamp, and
\* the senderId and senderUsername of one of the users
ForgedTimestamp == 99

ForgedFrames ==
    {Frame(TRUE, id, "", NilObjectID, UserIDOf(as), UsernameOf(as), "u1", ts) :
        id \in {NilMessageID, ForgedID},
        as \in {"c1", "c3"},
        ts \in {0, ForgedTimestamp}}

\* connections of two users sending such frames, every frame recorded
NextForge ==
    \/ \E c \in {"c1", "c3"} : HandleConnections(c) /\ Quiet
    \/ \E c \in {"c1", "c3"}, f \in ForgedFrames, ok \in BOOLEAN :
          ReadPumpFrame(c, f, ok) /\ Record("frame", c, f)
    \/ \E c \in {"c1", "c3"} : ReadPumpError(c) /\ Quiet
    \/ \E c \in {"c1", "c3"} : RunBroadcast(c) /\ Quiet
    \/ \E c \in {"c1", "c3"} : RunUnregister(c) /\ Quiet
    \/ \E c \in {"c1", "c3"} : WritePumpMessage(c, TRUE) /\ Quiet
    \/ \E c \in {"c1", "c3"} : WritePumpClosed(c) /\ Quiet

SpecForge == Init /\ [][NextForge]_vars

\* private frames to u1 without a type and with the type system, and a
\* payload that is no JSON object
KindFrames ==
    {Frame(wf, NilMessageID, t, NilObjectID, NilObjectID, "", "u1", 0) :
        wf \in BOOLEAN, t \in {"", MessageTypeSystem}}

\* connections of two users sending such frames; a frame is recorded with
\* whether the database accepts an insert
NextKinds ==
    \/ \E c \in {"c1", "c3"} : HandleConnections(c) /\ Quiet
    \/ \E c \in {"c1", "c3"}, f \in KindFrames, ok \in BOOLEAN :
          /\ ReadPumpFrame(c, f, ok)
          /\ Record(IF ok THEN "frame" ELSE "frameInsertFails", c, f)
    \/ \E c \in {"c1", "c3"} : ReadPumpError(c) /\ Quiet
    \/ \E c \in {"c1", "c3"} : RunBroadcast(c) /\ Quiet
    \/ \E c \in {"c1", "c3"} : RunUnregister(c) /\ Quiet
    \/ \E c \in {"c1", "c3"} : WritePumpMessage(c, TRUE) /\ Quiet
    \/ \E c \in {"c1", "c3"} : WritePumpClosed(c) /\ Quiet

SpecKinds == Init /\ [][NextKinds]_vars

\* connections of two users requested with every query of ConnectQueries;
\* a request is recorded with its query and the status of its response
NextConnect ==
    \/ \E c \in {"c1", "c3"}, q \in ConnectQueries :
          /\ HandleConnectionsRequest(c, q)
          /\ Record("connect", c, [query |-> q, status |-> ConnectStatus(q)])
    \/ \E c \in {"c1", "c3"}, f \in RoomFrames({"r1"}) :
          ReadPumpFrame(c, f, TRUE) /\ Quiet
    \/ \E c \in {"c1", "c3"} : ReadPumpError(c) /\ Quiet
    \/ \E c \in {"c1", "c3"} : RunBroadcast(c) /\ Quiet
    \/ \E c \in {"c1", "c3"} : RunUnregister(c) /\ Quiet
    \/ HandleJoinRoom("u1", "r1") /\ Quiet
    \/ \E c \in {"c1", "c3"} :
          WritePumpMessage(c, TRUE) /\ Quiet
    \/ \E c \in {"c1", "c3"} : WritePumpClosed(c) /\ Quiet

SpecConnect == Init /\ [][NextConnect]_vars

\* the page of one user receiving messages, selecting rooms and fetching
\* their history, while users leave chat rooms; no connection is modelled
NextPage ==
    \/ \E m \in ReceivedMessages : OnMessage(m) /\ observed' = Op("onmessage", "", m.type)
    \/ \E ok \in BOOLEAN : FetchUserChatRooms(ok) /\ UNCHANGED observed
    \/ \E k \in 1..Len(page.chatRooms), ok \in BOOLEAN :
          HandleSelectRoom(k, ok) /\ observed' = Op("handleSelectRoom", "", page.chatRooms[k].id)
    \/ \E u \in Users, r \in Rooms :
          LeaveChatRoom(u, r) /\ Quiet

SpecPage == Init /\ [][NextPage]_vars

\* a token is generated at some time and the user id is extracted from it
\* at that time or later, with the same secret or another one
NextJWT ==
    \/ \E userID \in UserIDs, username \in Usernames, secret \in Secrets :
          CallGenerateJWT(userID, username, secret) /\ UNCHANGED observed
    \/ \E jwtSecret \in Secrets : CallGetUserIDFromToken(jwtSecret) /\ UNCHANGED observed
    \/ Tick /\ UNCHANGED observed

SpecJWT == Init /\ [][NextJWT]_vars

(***************************************************************************)
(* Properties.                                                             *)
(***************************************************************************)
\* the participants the chatrooms collection declares for a room id
Participants(roomID) ==
    IF roomID \in DOMAIN chatRooms THEN Range(chatRooms[roomID]) ELSE {}

\* the by-user entry of a user is the connection c
IsByUserEntry(c) ==
    UserIDOf(c) \in DOMAIN clientsByUserID /\ clientsByUserID[UserIDOf(c)] = c

\* a step appends exactly m to the send channel of x
Enqueues(x, m) == send'[x] = Append(send[x], m)

\* a message the hub routes by its room: it names a room and no recipient
IsRoomMessage(m) == m.roomId # NilObjectID /\ m.recipientId = NilObjectID

\* C1: in every reachable state the by-identity map Hub.clients holds at most
\* one connection of any user id.
C1_OneConnectionPerUser ==
    \A a \in clients, b \in clients : UserIDOf(a) = UserIDOf(b) => a = b

\* C2: the step in which the hub processes register(c2) evicts every
\* connection c1 of the same user that is registered: c1's send channel is
\* closed, c1 is in neither map, and the by-user entry is c2.
C2_RegisterEvictsPrevious ==
    [][\A c2 \in Clients : HandleConnections(c2) =>
          \A c1 \in clients \ {c2} : UserIDOf(c1) = UserIDOf(c2) =>
             /\ closed'[c1]
             /\ c1 \notin clients'
             /\ c2 \in clients'
             /\ clientsByUserID'[UserIDOf(c2)] = c2]_vars

\* C3: when the hub processes a message addressed to room R, the message is
\* enqueued to every registered connection of a participant of R (one with
\* room in its open send channel), and to no connection whose user is not a
\* participant of R.
C3_RoomFanoutExact ==
    [][\A c \in Clients :
          (RunBroadcast(c) /\ IsRoomMessage(pending[c])) =>
             LET m == pending[c]
                 P == Participants(m.roomId)
             IN /\ \A x \in clients :
                      (UserIDOf(x) \in P /\ ~closed[x] /\ Len(send[x]) < QueueCap)
                         => Enqueues(x, m)
                /\ \A x \in Clients :
                      Enqueues(x, m) => UserIDOf(x) \in P]_vars

\* C4: when a recipient of a room broadcast has a full send channel, the
\* broadcast step closes that channel, removes the connection from both
\* registry maps and does not enqueue the message for it, and every other
\* recipient whose open channel has room has the message enqueued.
C4_FullQueueEvictedOthersServed ==
    [][\A c \in Clients :
          (RunBroadcast(c) /\ IsRoomMessage(pending[c])
             /\ pending[c].roomId \in DOMAIN roomClients) =>
             LET m == pending[c]
                 R == roomClients[m.roomId]
                 full == {x \in R : ~closed[x] /\ Len(send[x]) >= QueueCap}
             IN full # {} =>
                /\ \A x \in full :
                      /\ closed'[x]
                      /\ x \notin clients'
                      /\ ~IsByUserEntry(x)'
                      /\ send'[x] = send[x]
                /\ \A y \in R \ full :
                      (~closed[y] /\ Len(send[y]) < QueueCap) => Enqueues(y, m)]_vars

\* C5: when a registered connection c of user U, a participant of room R1,
\* sends the frame {roomId: R1, content} and the database accepts the insert,
\* exactly one message is stored, of type chat, with a non-zero id, sender U
\* and room R1; the message handed to the hub carries that id, and the hub
\* enqueues it to every registered connection of a participant of R1 (one
\* with room in its open send channel), c itself included.
C5_RoomFrameRoundTrip ==
    [][\A c \in Clients :
          /\ \A f \in RoomFrames(Rooms) :
                (ReadPumpFrame(c, f, TRUE) /\ c \in clients
                   /\ UserIDOf(c) \in Participants(f.roomId)) =>
                   /\ Len(messages') = Len(messages) + 1
                   /\ LET d == messages'[Len(messages')]
                      IN /\ d.type = MessageTypeChat
                         /\ d.id # NilMessageID
                         /\ d.senderId = UserIDOf(c)
                         /\ d.roomId = f.roomId
                         /\ pending'[c] = d
          /\ (RunBroadcast(c) /\ IsRoomMessage(pending[c])) =>
                \A x \in clients :
                   (UserIDOf(x) \in Participants(pending[c].roomId)
                      /\ ~closed[x] /\ Len(send[x]) < QueueCap)
                      => Enqueues(x, pending[c])]_vars

\* C6: a frame whose roomId is the id of no chat room causes no write to the
\* messages collection and no broadcast request, and its connection stays
\* registered with its readPump at the next frame.
C6_UnknownRoomFrameDropped ==
    [][\A c \in Clients, f \in RoomFrames(Rooms) :
          (ReadPumpFrame(c, f, TRUE) /\ f.roomId \notin DOMAIN chatRooms) =>
             /\ messages' = messages
             /\ pending' = pending
             /\ pc'[c] = "read"
             /\ clients' = clients]_vars

\* C8: unregister(c) for a connection c that is not in Hub.clients changes
\* nothing: both registry maps, every room's connection set and every send
\* channel stay as they are, and c's channel is not closed again (closing a
\* closed channel would panic).
C8_UnregisterAbsentIsNoOp ==
    [][\A c \in Clients :
          (RunUnregister(c) /\ c \notin clients) =>
             /\ clients' = clients
             /\ clientsByUserID' = clientsByUserID
             /\ roomClients' = roomClients
             /\ send' = send
             /\ closed' = closed
             /\ fatal' = fatal]_vars

\* the hub processed unregister(c) for a connection a full send channel had
\* evicted before, and the process lives
C8_Witness ==
    \E c \in Clients :
       /\ observed = Op("unregister", c, FALSE)
       /\ pc[c] = "gone"
       /\ closed[c]
       /\ fatal = NoFatal

\* the history replay to x still has a message to send: GetMessages has not
\* run, or the history loop has not ended
HistoryOutstanding(x) ==
    boot[x] = "fetch" \/ (boot[x] = "history" /\ hist[x] # <<>>)

\* C7: a client that connects when fewer messages than the history limit are
\* stored is replayed exactly those messages, oldest first, and no message
\* stored after it connected is enqueued to it by the hub while a stored one
\* is still to be replayed (a replay a failed query or a timeout ended is
\* left aside).
C7_HistoryPrecedesLive ==
    [][\A x \in Clients :
          (observed.op = "HandleConnections" /\ observed.c = x
             /\ observed.arg > 0 /\ observed.arg < HistoryLimit) =>
             /\ (BootFetch(x, TRUE) /\ Len(messages) = observed.arg)
                   => hist'[x] = messages
             /\ \A c \in Clients :
                   (RunBroadcast(c) /\ pending[c].timestamp > observed.arg
                      /\ Enqueues(x, pending[c]))
                      => ~HistoryOutstanding(x)]_vars

\* the frames f and g differ at most in senderId, senderUsername and timestamp
SameButIdentity(f, g) ==
    [f EXCEPT !.senderId = g.senderId, !.senderUsername = g.senderUsername,
              !.timestamp = g.timestamp] = g

\* C9: whatever senderId, senderUsername and timestamp an inbound frame
\* carries, the message stored and the message handed to the hub carry the
\* connection's user id and username and the server's time (a frame that
\* differs only in these three fields takes the same step), and the hub
\* enqueues that message as it is.
C9_IdentityFromConnection ==
    [][\A c \in Clients :
          /\ \A f \in ForgedFrames :
                (ReadPumpFrame(c, f, TRUE) /\ messages' # messages) =>
                   /\ LET d == messages'[Len(messages')]
                      IN /\ d.senderId = UserIDOf(c)
                         /\ d.senderUsername = UsernameOf(c)
                         /\ d.timestamp = Now
                         /\ pending'[c].senderId = d.senderId
                         /\ pending'[c].senderUsername = d.senderUsername
                         /\ pending'[c].timestamp = d.timestamp
                   /\ \A g \in ForgedFrames :
                         SameButIdentity(f, g) => ReadPumpFrame(c, g, TRUE)
          /\ RunBroadcast(c) =>
                \A x \in Clients :
                   send'[x] # send[x] => Enqueues(x, pending[c])]_vars

\* the last frame read claimed another user's id and name and a time of its
\* own; it was stored and the hub enqueued it to the recipient's connection
\* under the sender connection's identity and the server's time
C9_Witness ==
    /\ observed.op = "frame"
    /\ LET c == observed.c
           f == observed.arg
       IN /\ f.senderId # UserIDOf(c)
          /\ f.senderUsername # UsernameOf(c)
          /\ f.timestamp = ForgedTimestamp
          /\ pc[c] = "read"
          /\ messages # <<>>
          /\ \E x \in clients \ {c} :
                /\ send[x] # <<>>
                /\ LET m == send[x][Len(send[x])]
                   IN /\ m = [messages[Len(messages)] EXCEPT !.isRead = m.isRead]
                      /\ m.senderId = UserIDOf(c)
                      /\ m.senderUsername = UsernameOf(c)
                      /\ m.timestamp # ForgedTimestamp

\* C10: whatever id an inbound frame carries, the message stored and the
\* message handed to the hub carry the id the store generates for the insert.
C10_IdFromStore ==
    [][\A c \in Clients, f \in ForgedFrames :
          (ReadPumpFrame(c, f, TRUE) /\ messages' # messages) =>
             /\ messages'[Len(messages')].id = FreshID
             /\ pending'[c].id = FreshID]_vars

C13_FailedInsertNotBroadcast ==
    [][\A c \in Clients, f \in KindFrames :
          (ReadPumpFrame(c, f, FALSE) /\ Unmarshal(f)) =>
             /\ messages' = messages
             /\ pending' = pending
             /\ pc'[c] # "bcast"
             /\ send' = send]_vars

\* the insert of the last frame read failed: nothing is stored, no queue
\* holds a message and the connection was unregistered
C13_Witness ==
    /\ observed.op = "frameInsertFails"
    /\ observed.arg.wellFormed
    /\ pc[observed.c] = "gone"
    /\ observed.c \notin clients
    /\ messages = <<>>
    /\ \A x \in Clients : send[x] = <<>>

\* C18: a frame json.Unmarshal rejects changes nothing: no message is
\* stored, none is handed to the hub, no send channel and no registry map
\* changes, and the readPump is at its next read.
C18_MalformedFrameDropped ==
    [][\A c \in Clients, f \in KindFrames, ok \in BOOLEAN :
          (ReadPumpFrame(c, f, ok) /\ ~f.wellFormed) =>
             /\ messages' = messages
             /\ pending' = pending
             /\ pc'[c] = "read"
             /\ send' = send
             /\ closed' = closed
             /\ clients' = clients
             /\ clientsByUserID' = clientsByUserID]_vars

\* the last frame read was no JSON object; its connection is registered,
\* open and reading, and nothing is stored
C18_Witness ==
    /\ observed.op \in {"frame", "frameInsertFails"}
    /\ ~observed.arg.wellFormed
    /\ pc[observed.c] = "read"
    /\ observed.c \in clients
    /\ ~closed[observed.c]
    /\ messages = <<>>

C14_QueuedMessagesStored ==
    \A x \in Clients : \A i \in 1..Len(send[x]) :
       /\ send[x][i].id # NilMessageID
       /\ send[x][i].id \in StoredIDs

\* what newWs.onmessage does to the displayed messages: a message of the
\* type room_state_update leaves the Map as it is, and the Map changes only
\* by appending a message of the type normal or system to the list of its room
OnMessageAppendsDisplayedOnly ==
    [][\A m \in ReceivedMessages :
          OnMessage(m) =>
             /\ m.type = KindUpdate => page'.messages = page.messages
             /\ page'.messages # page.messages =>
                   /\ m.type \in {KindNormal, MessageTypeSystem}
                   /\ page'.messages = UpdatedMessages(page.messages, m)]_vars

C16_HistoryIsMostRecent ==
    [][\A k \in 1..Len(page.chatRooms) :
          HandleSelectRoom(k, TRUE) =>
             LET roomID == page.chatRooms[k].id
                 all == SortByTimestamp(FindByRoom(messages, roomID))
                 n == Min(ChatHistoryLimit, Len(all))
             IN page'.messages[roomID] = SubSeq(all, Len(all) - n + 1, Len(all))]_vars

\* C17: a connect request whose userId or username is missing, or whose
\* userId is not the hex form of an ObjectID, is answered with the status
\* 400 and changes nothing: no client is created, none is registered with
\* the hub, and no goroutine is started for the socket.
C17_BadConnectRejected ==
    [][\A c \in Clients, q \in ConnectQueries :
          (/\ HandleConnectionsRequest(c, q)
           /\ observed' = Op("connect", c, [query |-> q, status |-> ConnectStatus(q)])
           /\ \/ q.userId = <<>>
              \/ q.username = <<>>
              \/ Len(q.userId) # ObjectIDHexLen
              \/ \E k \in 1..Len(q.userId) : q.userId[k] \notin HexDigits)
          => /\ observed'.arg.status = StatusBadRequest
             /\ pc'[c] = "new" /\ wp'[c] = "off" /\ boot'[c] = "off"
             /\ UNCHANGED hubVars]_vars

\* a request with a user id that is no hex string was answered with 400
\* while the other user is connected, and the socket is still unused
C17_Witness ==
    /\ observed.op = "connect"
    /\ observed.arg.query.userId # <<>>
    /\ ~ObjectIDFromHexOK(observed.arg.query.userId)
    /\ observed.arg.status = StatusBadRequest
    /\ pc[observed.c] = "new"
    /\ observed.c \notin clients
    /\ clients # {}

\* C19: GenerateJWT returns no error and a token that is not empty, names an
\* HMAC method and parses under the same secret; its claims userId and
\* username are the hex form of the user id and the username given, and exp
\* is after the time of the call.  GetUserIDFromToken with the same secret,
\* while the token has not expired, returns the user id given and no error.
C19_TokenRoundTrip ==
    issued.call # "none" =>
       /\ issued.err = "nil"
       /\ issued.token # <<>>
       /\ issued.token[1].alg = "HS256"
       /\ ParseError(issued.token, issued.secret, Claims(issued.token).iat) = "nil"
       /\ Claims(issued.token).userId = Hex(issued.userID)
       /\ Claims(issued.token).username = issued.username
       /\ Claims(issued.token).exp > Claims(issued.token).iat
       /\ (issued.call = "extracted" /\ issued.with = issued.secret
           /\ issued.now < Claims(issued.token).exp)
          => issued.result = issued.userID /\ issued.resultErr = "nil"

\* the user id was extracted, with the empty secret the token was signed
\* with, from a token for a username with escaped characters and a user id
\* that is not the zero one, after time had passed
C19_Witness ==
    /\ issued.call = "extracted"
    /\ issued.with = issued.secret
    /\ issued.secret = <<>>
    /\ issued.username = <<"BACKSLASH", "QUOTE">>
    /\ issued.userID # ZeroObjectID
    /\ issued.now > Claims(issued.token).iat
    /\ issued.result = issued.userID

\* C20: no goroutine sends on a send channel that was closed: the process
\* never panics with "send on closed channel".
C20_NoSendOnClosedQueue == fatal # SendOnClosed

(***************************************************************************)
(* The goroutine a step runs in.  Hub.Run is one goroutine: the register   *)
(* case (the second half of HandleConnections), the unregister case and    *)
(* the broadcast case are its steps.  HandleJoinRoom is an HTTP handler    *)
(* and runs in the goroutine of its request.                               *)
(***************************************************************************)
RegistryVars == <<clients, clientsByUserID, roomClients>>

HubRunStep ==
    \E c \in Clients :
        HandleConnections(c) \/ RunBroadcast(c) \/ RunUnregister(c)

\* C21: the registry (clients, clientsByUserID, roomClients) is written
\* only by Hub.Run: every step that changes one of the three maps is a step
\* of the hub's loop, never one of an HTTP handler or of a readPump.
C21_RegistryOnlyInHubRun ==
    [][RegistryVars' # RegistryVars => HubRunStep]_vars

\* C22: in every reachable state the two registry maps agree: every entry
\* (u -> c) of clientsByUserID has c in clients with c's user id equal to u,
\* and every connection in clients is the clientsByUserID entry of its user.
C22_RegistryMapsAgree ==
    /\ \A u \in DOMAIN clientsByUserID :
          clientsByUserID[u] \in clients /\ UserIDOf(clientsByUserID[u]) = u
    /\ \A c \in clients : IsByUserEntry(c)

\* C23: the step in which the hub unregisters a connection c leaves the
\* clientsByUserID entry of every other connection that stays registered:
\* a connection d # c that was the by-user entry of its user and is still
\* in clients after the step is still that entry.
C23_UnregisterKeepsOtherEntry ==
    [][\A c \in Clients : RunUnregister(c) =>
          \A d \in clients \ {c} :
             (IsByUserEntry(d) /\ d \in clients') =>
                /\ UserIDOf(d) \in DOMAIN clientsByUserID'
                /\ clientsByUserID'[UserIDOf(d)] = d]_vars

(***************************************************************************)
(* Fair scheduling.  u1 connects as c1 and joins r1 and the room id r2,    *)
(* u2 connects as c3; every insert succeeds, a write to a socket may fail. *)
(* The Go scheduler runs every goroutine that can run, and a select of     *)
(* Hub.Run with a sender waiting on one of its channels takes a ready case *)
(* at random: a case that stays ready is taken sooner or later, which is   *)
(* weak fairness of each hub case and of each writePump.  A panic of the   *)
(* Hub.Run goroutine ends the process: no action is enabled after it.      *)
(***************************************************************************)
LiveClients == {"c1", "c3"}

NextLive ==
    \/ \E c \in LiveClients : HandleConnections(c) /\ Quiet
    \/ \E c \in LiveClients, f \in RoomFrames({"r1"}) :
          ReadPumpFrame(c, f, TRUE) /\ Quiet
    \/ \E c \in LiveClients : ReadPumpError(c) /\ Quiet
    \/ \E c \in LiveClients : RunBroadcast(c) /\ Quiet
    \/ \E c \in LiveClients : RunUnregister(c) /\ Quiet
    \/ \E r \in Rooms : HandleJoinRoom("u1", r) /\ Quiet
    \/ \E c \in LiveClients, written \in BOOLEAN :
          WritePumpMessage(c, written) /\ Quiet
    \/ \E c \in LiveClients : WritePumpClosed(c) /\ Quiet

FairLive ==
    \A c \in LiveClients :
        /\ WF_vars(RunBroadcast(c) /\ Quiet)
        /\ WF_vars(RunUnregister(c) /\ Quiet)
        /\ WF_vars((\E written \in BOOLEAN : WritePumpMessage(c, written)) /\ Quiet)
        /\ WF_vars(WritePumpClosed(c) /\ Quiet)

SpecLive == Init /\ [][NextLive]_vars /\ FairLive

\* the final state of a connection: in neither map, send channel closed
Gone(c) == c \notin clients /\ ~IsByUserEntry(c) /\ closed[c]

\* C24: once the read loop of a connection has ended and its unregister
\* request waits for the hub (whatever ended the loop), the connection is
\* eventually gone: in neither registry map and with its send channel closed.
C24_ReadLoopExitLeadsToGone ==
    \A c \in LiveClients : (pc[c] = "unreg") ~> Gone(c)

(***************************************************************************)
(* The invitation case of Hub.Run in its two halves.  The case receives    *)
(* the invitation and calls database.CreateInvitation in the hub's own     *)
(* goroutine; the call returns when MongoDB has answered or when its       *)
(* context of 5 seconds has expired.  Until then Hub.Run is not at its     *)
(* select and receives from none of its channels.                          *)
(***************************************************************************)
HubAtSelect == invitation = NoInvitation

RunInvitationBegin(inviter, invitee, roomID) ==
    /\ Alive
    /\ HubAtSelect
    /\ invitation' = [inviter |-> inviter, invitee |-> invitee, roomId |-> roomID]
    /\ UNCHANGED <<hubVars, pc, pending, wp, bootVars, messages, chatRooms>>

\* CreateInvitation returns: on an error the case continues the loop, else
\* the notice is sent to the invitee's connection
RunInvitationEnd(ok) ==
    /\ Alive
    /\ ~HubAtSelect
    /\ IF ok
       THEN SetHub(InvitationCase(HubState, invitation.inviter,
                                  invitation.invitee, invitation.roomId))
       ELSE UNCHANGED hubVars
    /\ invitation' = NoInvitation
    /\ UNCHANGED <<pc, pending, wp, bootVars, messages, chatRooms>>

\* u1 invites u2 to r1, and u2 accepts; the other cases of Hub.Run are taken
\* only while the hub is at its select
NextInvite ==
    \/ \E c \in LiveClients : HubAtSelect /\ HandleConnections(c) /\ Quiet
    \/ \E c \in LiveClients, f \in RoomFrames({"r1"}) :
          ReadPumpFrame(c, f, TRUE) /\ Quiet
    \/ \E c \in LiveClients : ReadPumpError(c) /\ Quiet
    \/ \E c \in LiveClients : HubAtSelect /\ RunBroadcast(c) /\ Quiet
    \/ \E c \in LiveClients : HubAtSelect /\ RunUnregister(c) /\ Quiet
    \/ RunInvitationBegin("u1", "u2", "r1") /\ UNCHANGED <<observed, page, issued, join, create>>
    \/ \E ok \in BOOLEAN :
          RunInvitationEnd(ok) /\ UNCHANGED <<observed, page, issued, join, create>>
    \/ HandleJoinRoom("u2", "r1") /\ Quiet
    \/ \E c \in LiveClients : WritePumpMessage(c, TRUE) /\ Quiet
    \/ \E c \in LiveClients : WritePumpClosed(c) /\ Quiet

SpecInvite == Init /\ [][NextInvite]_vars

\* a request a connection offers to Hub.Run and the hub has not taken
Offered(c) == pc[c] \in {"bcast", "unreg"}

\* C25: Hub.Run never waits inside a case: whenever a connection offers it a
\* broadcast or an unregister request, the hub is at its select and not
\* inside a call that blocks, so the request can be taken at once.
C25_HubNeverWaitsInsideCase ==
    \A c \in Clients : Offered(c) => HubAtSelect

(***************************************************************************)
(* The order of the messages of one connection.  The specification keeps   *)
(* in observed, for every client, enq: the messages put into c.send, in    *)
(* the order of the steps that put them there, and out: the messages       *)
(* writePump received from c.send and wrote to the socket, in the order of *)
(* its writes.                                                             *)
(***************************************************************************)
MaxLog == 3

EmptyLog == [enq |-> [c \in Clients |-> <<>>], out |-> [c \in Clients |-> <<>>]]

Log == IF observed.op = "order" THEN observed.arg ELSE EmptyLog

\* message, ok := <-c.send: the message writePump receives and writes
Received(c) == Head(send[c])

\* a step of the hub or of JoinRoom: at most one message for each client,
\* put at the end of its channel
LogEnqueues ==
    /\ \A x \in Clients : Len(Log.enq[x]) < MaxLog
    /\ observed' = Op("order", "",
          [Log EXCEPT !.enq = [x \in Clients |->
              IF send'[x] # <<>> /\ send'[x] # send[x]
              THEN Append(Log.enq[x], send'[x][Len(send'[x])])
              ELSE Log.enq[x]]])
    /\ UNCHANGED <<page, issued, invitation, join, create>>

LogWrite(c) ==
    /\ observed' = Op("order", "", [Log EXCEPT !.out[c] = Append(@, Received(c))])
    /\ UNCHANGED <<page, issued, invitation, join, create>>

\* u1 connects as c1, joins r1 and sends frames to it, which come back to
\* c1 as a client of the room; u2 connects as c3 and joins no room
NextOrder ==
    \/ \E c \in LiveClients : HandleConnections(c) /\ Quiet
    \/ \E c \in LiveClients, f \in RoomFrames({"r1"}) :
          ReadPumpFrame(c, f, TRUE) /\ Quiet
    \/ \E c \in LiveClients : ReadPumpError(c) /\ Quiet
    \/ \E c \in LiveClients : RunBroadcast(c) /\ LogEnqueues
    \/ \E c \in LiveClients : RunUnregister(c) /\ Quiet
    \/ HandleJoinRoom("u1", "r1") /\ LogEnqueues
    \/ \E c \in LiveClients : WritePumpMessage(c, TRUE) /\ LogWrite(c)
    \/ \E c \in LiveClients : WritePumpClosed(c) /\ Quiet

SpecOrder == Init /\ [][NextOrder]_vars

IsPrefix(s, t) == Len(s) <= Len(t) /\ \A i \in 1..Len(s) : s[i] = t[i]

C30_ClosedQueueStopsWritePump ==
    \A c \in LiveClients : closed[c] ~> (wp[c] = "stopped")

(***************************************************************************)
(* Leaving a room.  u1 and u2 connect, accept invitations to r1, send      *)
(* frames to it and leave it through LeaveChatRoom.                        *)
(***************************************************************************)
NextLeave ==
    \/ \E c \in LiveClients : HandleConnections(c) /\ Quiet
    \/ \E c \in LiveClients, f \in RoomFrames({"r1"}) :
          ReadPumpFrame(c, f, TRUE) /\ Quiet
    \/ \E c \in LiveClients : ReadPumpError(c) /\ Quiet
    \/ \E c \in LiveClients : RunBroadcast(c) /\ Quiet
    \/ \E c \in LiveClients : RunUnregister(c) /\ Quiet
    \/ \E u \in Users : HandleJoinRoom(u, "r1") /\ Quiet
    \/ \E u \in Users : LeaveChatRoom(u, "r1") /\ Quiet
    \/ \E c \in LiveClients : WritePumpMessage(c, TRUE) /\ Quiet
    \/ \E c \in LiveClients : WritePumpClosed(c) /\ Quiet

SpecLeave == Init /\ [][NextLeave]_vars

\* the messages a step puts into the send channel of x
NewlyQueued(x) == {send'[x][i] : i \in (Len(send[x]) + 1)..Len(send'[x])}

\* the participants of a room once the step is done
ParticipantsAfter(roomID) ==
    IF roomID \in DOMAIN chatRooms' THEN Range(chatRooms'[roomID]) ELSE {}

\* a step in which Hub.Run processes messages sent to its broadcast channel:
\* the frame of a readPump, or the two messages of LeaveChatRoom
BroadcastStep ==
    \/ \E c \in Clients : RunBroadcast(c)
    \/ \E u \in Users, r \in Rooms : LeaveChatRoom(u, r)

\* C27: a broadcast goes to the participants the room has when the hub
\* processes the message: the step puts no message of a room into the send
\* channel of a user who is no participant of that room by then (one who
\* left before), and the broadcast of a frame reaches every registered
\* connection, with room in its open channel, of a user who is one by then.
C27_BroadcastUsesCurrentParticipants ==
    [][/\ BroadcastStep =>
             \A x \in Clients : \A m \in NewlyQueued(x) :
                IsRoomMessage(m) => UserIDOf(x) \in ParticipantsAfter(m.roomId)
       /\ \A c \in Clients :
             (RunBroadcast(c) /\ IsRoomMessage(pending[c])) =>
                \A x \in clients :
                   (/\ UserIDOf(x) \in Participants(pending[c].roomId)
                    /\ ~closed[x]
                    /\ Len(send[x]) < QueueCap) => pending[c] \in NewlyQueued(x)]_vars

\* C28: every connection in a room's set of roomClients is registered (in
\* clients) and has an open send channel: an eviction or an unregister takes
\* the connection out of every room set it is in.
C28_RoomClientsAreLive ==
    \A r \in DOMAIN roomClients : \A c \in roomClients[r] :
        c \in clients /\ ~closed[c]

(***************************************************************************)
(* HandleJoinRoom statement by statement.  JoinRoom runs in the goroutine  *)
(* of the HTTP request and takes no lock, so a case of Hub.Run can run     *)
(* between two of its statements.  The steps below are the run of the loop *)
(* of JoinRoom in which the client x, whose channel is full, is visited    *)
(* last: the select takes its default branch; close(x.send); the three     *)
(* deletes.  A panic of the handler is recovered by net/http and kept in   *)
(* join.panic; Go may also detect two goroutines writing one map at the    *)
(* same time and end the process with a fatal error.                       *)
(***************************************************************************)
ConcurrentMapWrites == "concurrent map writes"

JoinRoomDefault(u, roomID, x) ==
    /\ Alive
    /\ join.at = "idle"
    /\ u \in DOMAIN clientsByUserID
    /\ LET c == clientsByUserID[u]
           h == JoinAdd(HubState, roomID, c)
           others == h.roomClients[roomID] \ {x}
       IN /\ x \in h.roomClients[roomID]
          /\ ~closed[x]
          /\ Len(send[x]) >= QueueCap
          /\ \A y \in others : ~closed[y] /\ Len(send[y]) < QueueCap
          /\ roomClients' = h.roomClients
          /\ send' = [y \in Clients |->
                IF y \in others THEN Append(send[y], JoinMessage(roomID, c))
                ELSE send[y]]
    /\ chatRooms' = AddMemberToChatRoom(chatRooms, roomID, u)
    /\ join' = [at |-> "default", roomId |-> roomID, client |-> x, panic |-> NoFatal]
    /\ UNCHANGED <<clients, clientsByUserID, closed, fatal, pc, pending, wp,
                   bootVars, messages>>

\* close(c.send) of the default branch
JoinRoomClose ==
    /\ Alive
    /\ join.at = "default"
    /\ IF closed[join.client]
       THEN /\ join' = [NoJoin EXCEPT !.panic = CloseOfClosed]
            /\ UNCHANGED closed
       ELSE /\ closed' = [closed EXCEPT ![join.client] = TRUE]
            /\ join' = [join EXCEPT !.at = "closed"]
    /\ UNCHANGED <<clients, clientsByUserID, roomClients, send, fatal, pc,
                   pending, wp, bootVars, messages, chatRooms>>

\* the deletes of the default branch; thrown is whether the runtime found
\* Hub.Run writing its maps at the same time, in the unregister case of a
\* connection that waits with its request
JoinRoomDelete(thrown) ==
    /\ Alive
    /\ join.at = "closed"
    /\ IF thrown
       THEN /\ \E c \in clients : pc[c] = "unreg"
            /\ fatal' = ConcurrentMapWrites
            /\ UNCHANGED <<clients, clientsByUserID, roomClients>>
       ELSE /\ roomClients' =
                  IF join.roomId \in DOMAIN roomClients
                  THEN [roomClients EXCEPT ![join.roomId] = @ \ {join.client}]
                  ELSE roomClients
            /\ clients' = clients \ {join.client}
            /\ clientsByUserID' = MapDelete(clientsByUserID, UserIDOf(join.client))
            /\ UNCHANGED fatal
    /\ join' = NoJoin
    /\ UNCHANGED <<send, closed, pc, pending, wp, bootVars, messages, chatRooms>>

JoinQuiet == UNCHANGED <<observed, page, issued, invitation, create>>

\* u1 connects as c1 and joins r1, twice or more, while c1 sends frames to
\* r1 and the hub serves them; u2 connects as c3
NextRace ==
    \/ \E c \in LiveClients : HandleConnections(c) /\ Quiet
    \/ \E c \in LiveClients, f \in RoomFrames({"r1"}) :
          ReadPumpFrame(c, f, TRUE) /\ Quiet
    \/ \E c \in LiveClients : ReadPumpError(c) /\ Quiet
    \/ \E c \in LiveClients : RunBroadcast(c) /\ Quiet
    \/ \E c \in LiveClients : RunUnregister(c) /\ Quiet
    \/ HandleJoinRoom("u1", "r1") /\ join.at = "idle" /\ Quiet
    \/ \E x \in LiveClients : JoinRoomDefault("u1", "r1", x) /\ JoinQuiet
    \/ JoinRoomClose /\ JoinQuiet
    \/ \E thrown \in BOOLEAN : JoinRoomDelete(thrown) /\ JoinQuiet
    \/ \E c \in LiveClients : WritePumpMessage(c, TRUE) /\ Quiet
    \/ \E c \in LiveClients : WritePumpClosed(c) /\ Quiet

SpecRace == Init /\ [][NextRace]_vars

\* C29: close(c.send) is never executed on a channel that is closed: neither
\* Hub.Run nor a HandleJoinRoom that runs beside it panics with "close of
\* closed channel".
C29_SendClosedAtMostOnce ==
    fatal # CloseOfClosed /\ join.panic # CloseOfClosed

\* C31: when the send of one history message times out, only that message
\* is skipped: the messages after it are still to be sent by the history
\* loop.
C31_HistoryTimeoutSkipsOneItem ==
    [][\A c \in Clients : BootHistoryTimeout(c) => hist'[c] = Tail(hist[c])]_vars

\* a message a user may be shown: a private message the user sent or is the
\* recipient of, or a message of a room the user is a participant of
ConcernsUser(m, u) ==
    IF m.recipientId # NilObjectID THEN u \in {m.senderId, m.recipientId}
    ELSE u \in Participants(m.roomId)

\* C32: every message the history loop puts into the send channel of a new
\* connection is one of its user's conversations: no private message
\* between other users and no message of a room of others is replayed.
C32_HistoryOnlyOwnConversations ==
    [][\A c \in Clients :
          (BootSendHistory(c) /\ send'[c] # send[c]) =>
             ConcernsUser(Head(hist[c]), UserIDOf(c))]_vars

(***************************************************************************)
(* Routing of inbound frames: connections of two users, neither of which   *)
(* joins a room.  The frames are a payload that is no JSON object, a frame *)
(* that names neither room nor recipient, frames to the chat room r1 and   *)
(* to r2, a room id no chat room has, and a private frame to u1; a frame   *)
(* is recorded with whether the database accepts an insert.                *)
(***************************************************************************)
RouteFrames ==
    {Frame(FALSE, NilMessageID, "", NilObjectID, NilObjectID, "", NilObjectID, 0),
     Frame(TRUE, NilMessageID, "", NilObjectID, NilObjectID, "", NilObjectID, 0),
     Frame(TRUE, NilMessageID, "", NilObjectID, NilObjectID, "", "u1", 0)}
    \cup RoomFrames(Rooms)

NextRoute ==
    \/ \E c \in {"c1", "c3"} : HandleConnections(c) /\ Quiet
    \/ \E c \in {"c1", "c3"}, f \in RouteFrames, ok \in BOOLEAN :
          /\ ReadPumpFrame(c, f, ok)
          /\ Record(IF ok THEN "frame" ELSE "frameInsertFails", c, f)
    \/ \E c \in {"c1", "c3"} : ReadPumpError(c) /\ Quiet
    \/ \E c \in {"c1", "c3"} : RunBroadcast(c) /\ Quiet
    \/ \E c \in {"c1", "c3"} : RunUnregister(c) /\ Quiet
    \/ \E c \in {"c1", "c3"} : WritePumpMessage(c, TRUE) /\ Quiet
    \/ \E c \in {"c1", "c3"} : WritePumpClosed(c) /\ Quiet

SpecRoute == Init /\ [][NextRoute]_vars

\* C33: a well-formed frame that names neither a room nor a recipient is
\* dropped: it is not stored, it is not handed to the hub, and its readPump
\* is at its next read.
C33_FrameWithoutRoomDropped ==
    [][\A c \in Clients, f \in RouteFrames :
          (ReadPumpFrame(c, f, TRUE) /\ f.wellFormed
             /\ f.roomId = NilObjectID /\ f.recipientId = NilObjectID) =>
             /\ messages' = messages
             /\ pending' = pending
             /\ pc'[c] = "read"]_vars

\* the frames readPump drops: no JSON object, or a room of which the
\* connection is no client (a room no chat room has, or one not joined)
ProtocolError(c, f) ==
    ~Unmarshal(f) \/ ~RoomCheckPasses(c, StampFrame(c, f))

\* C34: a frame whose insert fails ends the read loop: its readPump is at
\* the deferred unregister, from where the only step of the connection is
\* the unregister that takes it out of the registry and closes its send
\* channel.  A frame that is malformed or names a room of which the
\* connection is no client leaves the readPump at its next read, and the
\* registry and the send channels as they are.
C34_InsertFailureEndsReadLoop ==
    [][\A c \in Clients, f \in RouteFrames, ok \in BOOLEAN :
          /\ (ReadPumpFrame(c, f, FALSE) /\ ~ProtocolError(c, f)) =>
                pc'[c] = "unreg"
          /\ (ReadPumpFrame(c, f, ok) /\ ProtocolError(c, f)) =>
                /\ pc'[c] = "read"
                /\ clients' = clients
                /\ clientsByUserID' = clientsByUserID
                /\ closed' = closed
          /\ (pc[c] = "unreg" /\ pc'[c] # "unreg") =>
                /\ pc'[c] = "gone"
                /\ c \notin clients'
                /\ clientsByUserID' = clientsByUserID
                      \/ UserIDOf(c) \notin DOMAIN clientsByUserID'
                /\ closed'[c]]_vars

\* the insert of the last frame read failed, and its connection was
\* unregistered: it is in neither registry map and its send channel is
\* closed, while the other connection is registered and reading
C34_Witness ==
    /\ observed.op = "frameInsertFails"
    /\ ~ProtocolError(observed.c, observed.arg)
    /\ pc[observed.c] = "gone"
    /\ observed.c \notin clients
    /\ closed[observed.c]
    /\ \E x \in clients : pc[x] = "read" /\ ~closed[x]

(***************************************************************************)
(* Private messages that name a room: connections of two users who may     *)
(* both join the chat room r1; the connection of u1 sends frames that name *)
(* the room r1 and a recipient, u1 itself or u2.  The database accepts     *)
(* every insert; every message the hub takes from Hub.broadcast is         *)
(* recorded.                                                               *)
(***************************************************************************)
PrivateRoomFrames ==
    {Frame(TRUE, NilMessageID, "", r, NilObjectID, "", u, 0) :
        r \in {"r1"}, u \in Users}

NextPrivate ==
    \/ \E c \in {"c1", "c3"} : HandleConnections(c) /\ Quiet
    \/ \E f \in PrivateRoomFrames :
          ReadPumpFrame("c1", f, TRUE) /\ Quiet
    \/ \E c \in {"c1", "c3"} : ReadPumpError(c) /\ Quiet
    \/ RunBroadcast("c1") /\ Record("broadcast", "c1", pending["c1"])
    \/ \E c \in {"c1", "c3"} : RunUnregister(c) /\ Quiet
    \/ \E u \in Users : HandleJoinRoom(u, "r1") /\ Quiet
    \/ \E c \in {"c1", "c3"} : WritePumpMessage(c, TRUE) /\ Quiet
    \/ \E c \in {"c1", "c3"} : WritePumpClosed(c) /\ Quiet

SpecPrivate == Init /\ [][NextPrivate]_vars

\* the by-user connections of the recipient and of the sender of m
PrivateTargets(m) ==
    {clientsByUserID[u] : u \in {m.recipientId, m.senderId} \cap DOMAIN clientsByUserID}

\* C35: when the hub takes a message with a recipient from Hub.broadcast,
\* the send channel of the by-user connection of the recipient and of the
\* sender gets the message once or is left as it is, and every other
\* connection keeps its send channel, open or closed, as it was: also the
\* clients of the room the message names.
C35_PrivateOnlyToRecipientAndSender ==
    [][\A c \in Clients :
          (RunBroadcast(c) /\ pending[c].recipientId # NilObjectID) =>
             \A x \in Clients :
                /\ send'[x] = send[x] \/ Enqueues(x, pending[c])
                /\ x \notin PrivateTargets(pending[c]) =>
                      send'[x] = send[x] /\ closed'[x] = closed[x]]_vars

\* the hub took a private message that names r1 from Hub.broadcast: the
\* recipient's connection holds it, and a registered client of r1 of a
\* user who is neither sender nor recipient has an empty send channel
C35_Witness ==
    /\ observed.op = "broadcast"
    /\ observed.arg.recipientId # NilObjectID
    /\ observed.arg.roomId = "r1"
    /\ observed.arg.recipientId \in DOMAIN clientsByUserID
    /\ send[clientsByUserID[observed.arg.recipientId]] = <<observed.arg>>
    /\ "r1" \in DOMAIN roomClients
    /\ \E x \in roomClients["r1"] \cap clients :
          /\ UserIDOf(x) \notin {observed.arg.senderId, observed.arg.recipientId}
          /\ ~closed[x]
          /\ send[x] = <<>>

(***************************************************************************)
(* The unread replay: u2 sends private frames to u1, and the history        *)
(* goroutine of the connection of u1 runs (that of u2's connection has not *)
(* been scheduled yet).  The database accepts every insert and every       *)
(* query; a connection is recorded with the number of messages stored      *)
(* before it.                                                              *)
(***************************************************************************)
NextUnread ==
    \/ \E c \in {"c1", "c3"} :
          HandleConnections(c) /\ Record("HandleConnections", c, Len(messages))
    \/ \E f \in PrivateFrames({"u1"}) : ReadPumpFrame("c3", f, TRUE) /\ Quiet
    \/ \E c \in {"c1", "c3"} : ReadPumpError(c) /\ Quiet
    \/ RunBroadcast("c3") /\ Quiet
    \/ \E c \in {"c1", "c3"} : RunUnregister(c) /\ Quiet
    \/ \E c \in {"c1", "c3"} : WritePumpMessage(c, TRUE) /\ Quiet
    \/ \E c \in {"c1", "c3"} : WritePumpClosed(c) /\ Quiet
    \/ BootFetch("c1", TRUE) /\ Quiet
    \/ BootSendHistory("c1") /\ Quiet
    \/ BootHistoryTimeout("c1") /\ Quiet
    \/ BootFetchUnread("c1", TRUE) /\ Quiet
    \/ BootSendUnread("c1") /\ Quiet
    \/ BootUnreadTimeout("c1") /\ Quiet
    \/ BootMarkRead("c1") /\ Quiet

SpecUnread == Init /\ [][NextUnread]_vars

\* the positions of the stored messages a step marks as read
NewlyRead ==
    {i \in 1..Len(messages) : ~messages[i].isRead /\ messages'[i].isRead}

HexOrder == <<"u1", "u2">>
HexRank(u) == CHOOSE i \in 1..Len(HexOrder) : HexOrder[i] = u

\* utils.SortObjectIDs: ascending by Hex string, repetitions kept
RECURSIVE InsertObjectID(_, _)
InsertObjectID(sorted, u) ==
    IF sorted = <<>> THEN <<u>>
    ELSE IF HexRank(u) < HexRank(Head(sorted)) THEN <<u>> \o sorted
    ELSE <<Head(sorted)>> \o InsertObjectID(Tail(sorted), u)

RECURSIVE SortObjectIDs(_)
SortObjectIDs(ids) ==
    IF ids = <<>> THEN <<>>
    ELSE InsertObjectID(SortObjectIDs(Tail(ids)), Head(ids))

\* FindChatRoomByParticipants: the rooms whose participants array has the
\* size of the list ($size) and holds each of its ids ($all); FindOne
\* returns one of them, or no document
FindChatRoomByParticipants(participantIDs) ==
    {r \in DOMAIN chatRooms :
        /\ Len(chatRooms[r]) = Len(participantIDs)
        /\ Range(participantIDs) \subseteq Range(chatRooms[r])}

\* the ObjectID InsertOne generates for a chat room: one that no document,
\* no room of the hub and no stored message has
RoomIDPool == <<"r1", "r2", "r3">>

UsedRoomIDs ==
    DOMAIN chatRooms \cup DOMAIN roomClients
       \cup {messages[i].roomId : i \in 1..Len(messages)}

NewRoomID ==
    RoomIDPool[CHOOSE i \in 1..Len(RoomIDPool) :
                  /\ RoomIDPool[i] \notin UsedRoomIDs
                  /\ \A j \in 1..(i - 1) : RoomIDPool[j] \in UsedRoomIDs]

\* CreateChatRoom up to FindChatRoomByParticipants, for the request q of the
\* user creatorID with the participant ids ids: the creator is appended
\* when the list lacks it, the list is sorted, and the handler returns the
\* room the query finds
CreateChatRoomFind(q, creatorID, ids) ==
    /\ Alive
    /\ create[q].at = "idle"
    /\ LET withCreator == IF creatorID \in Range(ids) THEN ids
                          ELSE Append(ids, creatorID)
           participantObjectIDs == SortObjectIDs(withCreator)
       IN create' =
             IF Len(ids) < 1 \/ FindChatRoomByParticipants(participantObjectIDs) # {}
             THEN create
             ELSE [create EXCEPT ![q] = [at |-> "insert", creator |-> creatorID,
                                         participants |-> participantObjectIDs]]
    /\ UNCHANGED <<hubVars, pc, pending, wp, bootVars, messages, chatRooms>>

\* CreateChatRoom after the query found no room; ok is whether getUsernames
\* and InsertChatRoom succeed.  The update message is stored (InsertMessage
\* stores IsRead false) and sent to Hub.broadcast.
CreateChatRoomInsert(q, ok) ==
    /\ Alive
    /\ create[q].at = "insert"
    /\ create' = [create EXCEPT ![q] = NoCreate]
    /\ IF ~ok THEN UNCHANGED <<hubVars, messages, chatRooms>>
       ELSE /\ \E i \in 1..Len(RoomIDPool) : RoomIDPool[i] \notin UsedRoomIDs
            /\ Len(messages) + 1 <= MaxStored
            /\ LET update == RoomUpdateMessage(NewRoomID, FreshID, Now)
               IN /\ chatRooms' = MapPut(chatRooms, NewRoomID, create[q].participants)
                  /\ messages' = Append(messages, [update EXCEPT !.isRead = FALSE])
                  /\ \E v \in BroadcastVisits(HubState, update) :
                        SetHub(BroadcastCase(HubState, v, update))
    /\ UNCHANGED <<pc, pending, wp, bootVars>>

\* the system message of AddParticipants
InviteSystemMessage(roomID) ==
    [id |-> NilMessageID, type |-> MessageTypeSystem, roomId |-> roomID,
     senderId |-> NilObjectID, senderUsername |-> SystemUsername,
     recipientId |-> NilObjectID, content |-> "invited", timestamp |-> Now,
     isRead |-> FALSE]

\* AddParticipants for the room roomID and the new participant ids ids, when
\* every database call succeeds: the ids the room lacks are appended to its
\* participants and the list is sorted; the system message and the update
\* message are stored, then the update message and the system message are
\* sent to Hub.broadcast
AddParticipants(roomID, ids) ==
    /\ Alive
    /\ IF roomID \notin DOMAIN chatRooms
       THEN UNCHANGED <<hubVars, messages, chatRooms>>
       ELSE LET existing == chatRooms[roomID]
                actualNewParticipants ==
                   SelectSeq(ids, LAMBDA p : p \notin Range(existing))
                updatedParticipants ==
                   SortObjectIDs(existing \o actualNewParticipants)
                system == [InviteSystemMessage(roomID) EXCEPT !.id = FreshID]
                stored1 == Append(messages, system)
                update == RoomUpdateMessage(roomID, Len(stored1) + 1, Len(stored1) + 1)
                stored2 == Append(stored1, [update EXCEPT !.isRead = FALSE])
            IN IF actualNewParticipants = <<>>
               THEN UNCHANGED <<hubVars, messages, chatRooms>>
               ELSE /\ Len(messages) + 2 <= MaxStored
                    /\ chatRooms' = [chatRooms EXCEPT ![roomID] = updatedParticipants]
                    /\ messages' = stored2
                    /\ \E v1 \in BroadcastVisits(HubState, update) :
                          LET h1 == BroadcastCase(HubState, v1, update)
                          IN \E v2 \in BroadcastVisits(h1, system) :
                                SetHub(IF h1.fatal = NoFatal
                                       THEN BroadcastCase(h1, v2, system) ELSE h1)
    /\ UNCHANGED <<pc, pending, wp, bootVars>>

\* UpdateChatRoom for the room roomID and the participant ids ids, when every
\* database call succeeds: the list of the request becomes the participants
UpdateChatRoom(roomID, ids) ==
    /\ Alive
    /\ chatRooms' = IF roomID \in DOMAIN chatRooms
                    THEN [chatRooms EXCEPT ![roomID] = ids]
                    ELSE chatRooms
    /\ UNCHANGED <<hubVars, pc, pending, wp, bootVars, messages>>

\* the longest list of ids a request carries
MaxIDs == 2

\* the lists of user ids a request may carry
IDLists == UNION {[1..n -> Users] : n \in 0..MaxIDs}

\* a step of CreateChatRoom: it records nothing and belongs to neither the
\* page, the token calls, the invitation case nor a racing JoinRoom
CreateQuiet == UNCHANGED <<observed, page, issued, invitation, join>>

\* CreateChatRoom requests of both users, two of them side by side
NextCreate ==
    \/ \E q \in CreateRequests, u \in Users, ids \in IDLists :
          CreateChatRoomFind(q, u, ids) /\ CreateQuiet
    \/ \E q \in CreateRequests, ok \in BOOLEAN :
          CreateChatRoomInsert(q, ok) /\ CreateQuiet

SpecCreate == Init /\ [][NextCreate]_vars

\* one CreateChatRoom request at a time, and AddParticipants, UpdateChatRoom
\* and LeaveChatRoom requests for the room ids of Rooms
NextChatRooms ==
    \/ \E u \in Users, ids \in IDLists :
          CreateChatRoomFind("q1", u, ids) /\ CreateQuiet
    \/ \E ok \in BOOLEAN : CreateChatRoomInsert("q1", ok) /\ CreateQuiet
    \/ \E r \in Rooms, ids \in IDLists : AddParticipants(r, ids) /\ Quiet
    \/ \E r \in Rooms, ids \in IDLists : UpdateChatRoom(r, ids) /\ Quiet
    \/ \E u \in Users, r \in Rooms : LeaveChatRoom(u, r) /\ Quiet

SpecChatRooms == Init /\ [][NextChatRooms]_vars

\* C37: no two stored chat rooms have the same participant list: a
\* CreateChatRoom request for the participants of a stored room inserts no
\* second room, also when two such requests run side by side.
C37_OneRoomPerParticipants ==
    \A a, b \in DOMAIN chatRooms : a # b => chatRooms[a] # chatRooms[b]

\* no id occurs twice in the list
NoRepetition(ids) ==
    \A i, j \in 1..Len(ids) : ids[i] = ids[j] => i = j

\* C38: AddParticipants on a stored room whose participants are without
\* repetition leaves a list without repetition that holds the previous
\* participants and the requested users, and nobody else.
C38_AddParticipantsIsUnion ==
    [][\A r \in Rooms, ids \in IDLists :
          (AddParticipants(r, ids) /\ r \in DOMAIN chatRooms
             /\ NoRepetition(chatRooms[r])) =>
             /\ r \in DOMAIN chatRooms'
             /\ NoRepetition(chatRooms'[r])
             /\ Range(chatRooms'[r]) = Range(chatRooms[r]) \cup Range(ids)]_vars

\* C39: every stored chat room has at least one participant.
C39_NoRoomWithoutParticipants ==
    \A r \in DOMAIN chatRooms : chatRooms[r] # <<>>

====
